---- MODULE Spec2Model ----
(***************************************************************************)
(* A model of the JSON config editor panel (JsonEditorPanel) and of its    *)
(* path utilities.                                                         *)
(*                                                                         *)
(* Strings that the code inspects character by character (path keys, raw   *)
(* form input, property keys) are sequences of one-character strings, so   *)
(* that formatting and parsing are computed and not assumed.               *)
(*                                                                         *)
(* A JSON value is a tagged record.  Objects are maps from property key to *)
(* value (the insertion order of keys is not represented).  Arrays carry   *)
(* their elements and, as JavaScript arrays do, the named properties that  *)
(* an assignment with a non-index key creates on them.  A hole of a sparse *)
(* array reads as undefined and is stored as Undefined.                    *)
(***************************************************************************)
EXTENDS Integers, Sequences, FiniteSets, Bags, TLC

VARIABLES
    session,        \* this.session: NoSession or [data, schema]
    originalData,   \* this.originalData: the baseline snapshot
    modifiedPaths,  \* this.modifiedPaths
    file,           \* content of the config file on disk, or NoFile
    inflight,       \* the bag of suspended loadDocument / saveDocument calls
    status,         \* the last message handed to postStatus
    configWatcher,  \* this.configWatcher: TRUE once a watcher is installed
    fsEvents,       \* file-system notifications not yet delivered
    indentSize,     \* the configEditor.indentSize setting
    call            \* the application of a pure function under check

vars == <<session, originalData, modifiedPaths, file, inflight, status,
          configWatcher, fsEvents, indentSize, call>>

sessionVars == <<session, originalData, modifiedPaths, file, inflight, status,
                 configWatcher, fsEvents, indentSize>>

-----------------------------------------------------------------------------
(* Bounds *)

MaxPathLen == 3
MaxArrLen == 3
MaxInflight == 2
MaxIndex == 10
MaxPanels == 4

-----------------------------------------------------------------------------
(* JSON values *)

Undefined == [k |-> "undefined"]
Null == [k |-> "null"]
Num(n) == [k |-> "num", n |-> n]
Str(s) == [k |-> "str", s |-> s]
Bool(b) == [k |-> "bool", b |-> b]
Obj(f) == [k |-> "obj", f |-> f]
Arr(e) == [k |-> "arr", e |-> e, p |-> <<>>]

\* typeof v === 'object' && v !== null
IsContainer(v) == v.k \in {"obj", "arr"}

\* Array.isArray(v)
IsArray(v) == v.k = "arr"

Min(a, b) == IF a < b THEN a ELSE b
Max(a, b) == IF a > b THEN a ELSE b

-----------------------------------------------------------------------------
(* Characters and decimal numerals *)

Digits == <<"0", "1", "2", "3", "4", "5", "6", "7", "8", "9">>

IsDigit(c) == \E i \in 1..10 : Digits[i] = c

DigitVal(c) == (CHOOSE i \in 1..10 : Digits[i] = c) - 1

RECURSIVE NatToStr(_)
\* String(n) for a non-negative integer below 1e21
NatToStr(n) ==
    IF n < 10 THEN <<Digits[n + 1]>>
    ELSE NatToStr(n \div 10) \o <<Digits[(n % 10) + 1]>>

\* String(n) for an integer
IntToStr(n) == IF n < 0 THEN <<"-">> \o NatToStr(0 - n) ELSE NatToStr(n)

RECURSIVE DigitsToNat(_)
\* the value of a non-empty sequence of decimal digits
DigitsToNat(s) ==
    IF Len(s) = 0 THEN 0
    ELSE DigitsToNat(SubSeq(s, 1, Len(s) - 1)) * 10 + DigitVal(s[Len(s)])

AllDigits(s) == Len(s) > 0 /\ \A i \in 1..Len(s) : IsDigit(s[i])

-----------------------------------------------------------------------------
(* pathUtils.ts: path segments and the path key codec *)

Key(s) == [t |-> "key", s |-> s]
Idx(n) == [t |-> "idx", n |-> n]

\* a variant of SegmentText that joins string segments without the dot
SegmentTextNoDot(segment, index) ==
    IF segment.t = "idx" THEN <<"[">> \o IntToStr(segment.n) \o <<"]">>
    ELSE segment.s

\* the template literal `[${segment}]` / `.${segment}` of one segment
SegmentText(segment, index) ==
    IF segment.t = "idx" THEN <<"[">> \o IntToStr(segment.n) \o <<"]">>
    ELSE IF index = 1 THEN segment.s
    ELSE <<".">> \o segment.s

RECURSIVE JoinSegments(_, _)
JoinSegments(segments, index) ==
    IF index > Len(segments) THEN <<>>
    ELSE SegmentText(segments[index], index) \o JoinSegments(segments, index + 1)

buildPathKey(segments) ==
    IF Len(segments) = 0 THEN <<>> ELSE JoinSegments(segments, 1)

IsPlainChar(c) == c \notin {".", "[", "]"}

RECURSIVE PlainRun(_, _)
\* the end of the longest run of characters other than . [ ] from position i
PlainRun(s, i) ==
    IF i <= Len(s) /\ IsPlainChar(s[i]) THEN PlainRun(s, i + 1) ELSE i

RECURSIVE DigitRun(_, _)
DigitRun(s, i) ==
    IF i <= Len(s) /\ IsDigit(s[i]) THEN DigitRun(s, i + 1) ELSE i

RECURSIVE MatchTokens(_, _)
\* pathKey.match(/[^.[\]]+|\[\d+\]/g) scanning from position i
MatchTokens(s, i) ==
    IF i > Len(s) THEN <<>>
    ELSE IF IsPlainChar(s[i])
    THEN LET j == PlainRun(s, i)
         IN  <<SubSeq(s, i, j - 1)>> \o MatchTokens(s, j)
    ELSE IF s[i] = "["
    THEN LET j == DigitRun(s, i + 1)
         IN  IF j > i + 1 /\ j <= Len(s) /\ s[j] = "]"
             THEN <<SubSeq(s, i, j)>> \o MatchTokens(s, j + 1)
             ELSE MatchTokens(s, i + 1)
    ELSE MatchTokens(s, i + 1)

\* one token of the match to a segment
TokenSegment(token) ==
    IF token[1] = "[" /\ token[Len(token)] = "]"
    THEN LET inner == SubSeq(token, 2, Len(token) - 1)
         IN  IF AllDigits(inner) THEN Idx(DigitsToNat(inner)) ELSE Key(token)
    ELSE Key(token)

parsePathKey(pathKey) ==
    IF Len(pathKey) = 0 THEN <<>>
    ELSE LET tokens == MatchTokens(pathKey, 1)
         IN  [i \in 1..Len(tokens) |-> TokenSegment(tokens[i])]

-----------------------------------------------------------------------------
(* pathUtils.ts: the value accessor *)

\* ToPropertyKey(segment): a number indexes by its decimal string
PropKey(segment) == IF segment.t = "idx" THEN IntToStr(segment.n) ELSE segment.s

\* a property key that names an element of an array: a canonical decimal
\* numeral (the upper limit 2^32 - 2 is beyond every index of the model)
IsIndexKey(key) ==
    /\ AllDigits(key)
    /\ (Len(key) = 1 \/ key[1] # "0")

\* current[segment] on an object or an array
GetProp(current, segment) ==
    LET key == PropKey(segment)
    IN  IF current.k = "obj"
        THEN IF key \in DOMAIN current.f THEN current.f[key] ELSE Undefined
        ELSE IF IsIndexKey(key)
        THEN LET i == DigitsToNat(key)
             IN  IF i < Len(current.e) THEN current.e[i + 1] ELSE Undefined
        ELSE IF key \in DOMAIN current.p THEN current.p[key] ELSE Undefined

\* current[segment] = newValue on an object or an array
SetProp(current, segment, newValue) ==
    LET key == PropKey(segment)
    IN  IF current.k = "obj"
        THEN [current EXCEPT !.f =
                 [q \in (DOMAIN current.f) \cup {key} |->
                     IF q = key THEN newValue ELSE current.f[q]]]
        ELSE IF IsIndexKey(key)
        THEN LET i == DigitsToNat(key)
             IN  [current EXCEPT !.e =
                     [j \in 1..Max(Len(current.e), i + 1) |->
                         IF j = i + 1 THEN newValue
                         ELSE IF j <= Len(current.e) THEN current.e[j]
                         ELSE Undefined]]
        ELSE [current EXCEPT !.p =
                 [q \in (DOMAIN current.p) \cup {key} |->
                     IF q = key THEN newValue ELSE current.p[q]]]

RECURSIVE getValueAtPath(_, _)
getValueAtPath(target, segments) ==
    IF Len(segments) = 0 THEN target
    ELSE IF ~IsContainer(target) THEN Undefined
    ELSE getValueAtPath(GetProp(target, Head(segments)), Tail(segments))

RECURSIVE AssignAtPath(_, _, _)
\* the tree after the in-place assignment at the end of a walk that succeeds
AssignAtPath(current, segments, newValue) ==
    IF Len(segments) = 1 THEN SetProp(current, segments[1], newValue)
    ELSE SetProp(current, segments[1],
                 AssignAtPath(GetProp(current, segments[1]), Tail(segments), newValue))

RECURSIVE WalkReachesContainer(_, _)
\* the loop over containerSegments and the check that follows it
WalkReachesContainer(current, containerSegments) ==
    IF ~IsContainer(current) THEN FALSE
    ELSE IF Len(containerSegments) = 0 THEN TRUE
    ELSE WalkReachesContainer(GetProp(current, Head(containerSegments)),
                              Tail(containerSegments))

\* a variant of setValueAtPath that assigns the last segment on the root
\* instead of on the container the walk has reached
setValueAtPathShallow(target, segments, newValue) ==
    IF Len(segments) = 0 THEN [ok |-> FALSE, tree |-> target]
    ELSE IF ~WalkReachesContainer(target, SubSeq(segments, 1, Len(segments) - 1))
    THEN [ok |-> FALSE, tree |-> target]
    ELSE [ok |-> TRUE, tree |-> SetProp(target, segments[Len(segments)], newValue)]

\* setValueAtPath: ok is the returned boolean, tree is target after the call
setValueAtPath(target, segments, newValue) ==
    IF Len(segments) = 0 THEN [ok |-> FALSE, tree |-> target]
    ELSE IF ~WalkReachesContainer(target, SubSeq(segments, 1, Len(segments) - 1))
    THEN [ok |-> FALSE, tree |-> target]
    ELSE [ok |-> TRUE, tree |-> AssignAtPath(target, segments, newValue)]

\* inferSchemaType
inferSchemaType(value) ==
    IF value.k = "num" THEN "integer"
    ELSE IF value.k = "bool" THEN "boolean"
    ELSE "string"

-----------------------------------------------------------------------------
(* Text constants *)

sA == <<"a">>
sB == <<"b">>
sC == <<"c">>
sX == <<"x">>
sY == <<"y">>
sArr == <<"a", "r", "r">>
sMode == <<"m", "o", "d", "e">>
sServer == <<"s", "e", "r", "v", "e", "r">>
sPort == <<"p", "o", "r", "t">>
sDev == <<"d", "e", "v">>
sProd == <<"p", "r", "o", "d">>
sStaging == <<"s", "t", "a", "g", "i", "n", "g">>
sTrue == <<"t", "r", "u", "e">>
sFalse == <<"f", "a", "l", "s", "e">>

NoSession == [k |-> "nosession"]
NoFile == [k |-> "nofile"]
NoStatus == [level |-> "none", message |-> "none"]
NoCall == [op |-> "none"]

\* the session variables of a specification that only applies pure functions
SessionUnused ==
    /\ session = NoSession
    /\ originalData = Undefined
    /\ modifiedPaths = {}
    /\ file = NoFile
    /\ inflight = EmptyBag
    /\ status = NoStatus
    /\ configWatcher = FALSE
    /\ fsEvents = {}
    /\ indentSize = 2

-----------------------------------------------------------------------------
(* SpecCodec: buildPathKey and parsePathKey applied to bounded paths *)

\* string segments matching [A-Za-z0-9_]+ and non-negative integer segments
CodecSegments ==
    {Key(sA), Key(<<"B", "_">>), Key(<<"0">>), Key(<<"1", "2">>), Key(<<"x", "9">>),
     Idx(0), Idx(7), Idx(MaxIndex)}

RECURSIVE PathsOver(_, _)
\* the paths of at most n segments drawn from S
PathsOver(S, n) ==
    IF n = 0 THEN {<<>>}
    ELSE LET shorter == PathsOver(S, n - 1)
         IN  shorter \cup {Append(q, x) : q \in shorter, x \in S}

CodecPaths == PathsOver(CodecSegments, MaxPathLen)

InitCodec ==
    /\ SessionUnused
    /\ \E segments \in CodecPaths : call = [op |-> "path", path |-> segments]

CodecBuild ==
    /\ call.op = "path"
    /\ call' = [op |-> "key", path |-> call.path, key |-> buildPathKey(call.path)]
    /\ UNCHANGED sessionVars

CodecParse ==
    /\ call.op = "key"
    /\ call' = [op |-> "parsed", path |-> call.path, key |-> call.key,
                back |-> parsePathKey(call.key)]
    /\ UNCHANGED sessionVars

NextCodec == CodecBuild \/ CodecParse

SpecCodec == InitCodec /\ [][NextCodec]_vars

\* C7: decoding the encoding of a path of identifier-like string segments and
\* non-negative integer segments, the empty path included, gives the path back.
C7_RoundTrip == call.op = "parsed" => call.back = call.path

\* a path that mixes string and integer segments has been encoded and decoded
C7_Witness ==
    /\ call.op = "parsed"
    /\ call.path = <<Key(sA), Idx(MaxIndex), Key(<<"0">>)>>
    /\ call.key = <<"a", "[">> \o NatToStr(MaxIndex) \o <<"]", ".", "0">>

-----------------------------------------------------------------------------
(* SpecAccess: setValueAtPath followed by getValueAtPath on bounded trees *)

AccessSegments == {Key(sA), Key(sB), Key(sC), Idx(0), Idx(1), Idx(2)}

AccessPaths == PathsOver(AccessSegments, MaxPathLen)

AccessRoots ==
    {Obj((sA :> Obj((sB :> Num(1)) @@ (sC :> Arr(<<Num(1), Num(2)>>))))
         @@ (sB :> Num(2))),
     Arr(<<Obj((sA :> Num(1))), Num(5), Arr(<<Null>>)>>)}

AccessValues == {Num(7), Str(sA), Null}

InitAccess ==
    /\ SessionUnused
    /\ \E r \in AccessRoots, segments \in AccessPaths \ {<<>>}, v \in AccessValues :
           call = [op |-> "args", root |-> r, path |-> segments, value |-> v]

AccessSet ==
    /\ call.op = "args"
    /\ LET r == setValueAtPath(call.root, call.path, call.value)
       IN  call' = [op |-> "set", root |-> call.root, path |-> call.path,
                    value |-> call.value, ok |-> r.ok, after |-> r.tree]
    /\ UNCHANGED sessionVars

AccessGet ==
    /\ call.op = "set"
    /\ call' = [call EXCEPT !.op = "got"] @@
               [got |-> getValueAtPath(call.after, call.path)]
    /\ UNCHANGED sessionVars

NextAccess == AccessSet \/ AccessGet

SpecAccess == InitAccess /\ [][NextAccess]_vars

IsPrefix(p, q) == Len(p) <= Len(q) /\ SubSeq(q, 1, Len(p)) = p

\* q names a node that is neither on the way to p nor below p
OffPath(p, q) == ~IsPrefix(p, q) /\ ~IsPrefix(q, p)

\* C8: after a set that returns true, get at the same path returns the value
\* that was set, and every subtree off the path is structurally what it was.
C8_GetSet ==
    (call.op = "got" /\ call.ok) =>
        /\ call.got = call.value
        /\ \A q \in AccessPaths :
               OffPath(call.path, q) =>
                   getValueAtPath(call.after, q) = getValueAtPath(call.root, q)

\* a nested leaf that existed was overwritten next to a sibling subtree
C8_Witness ==
    /\ call.op = "got"
    /\ call.ok
    /\ call.path = <<Key(sA), Key(sB)>>
    /\ call.value = Num(7)
    /\ getValueAtPath(call.root, call.path) = Num(1)
    /\ getValueAtPath(call.after, <<Key(sA), Key(sC)>>) = Arr(<<Num(1), Num(2)>>)

-----------------------------------------------------------------------------
(* editorPanel: coercion and validation *)

\* String(value) of a primitive
ToStr(value) ==
    IF value.k = "str" THEN value.s
    ELSE IF value.k = "num" THEN IntToStr(value.n)
    ELSE IF value.k = "bool" THEN (IF value.b THEN sTrue ELSE sFalse)
    ELSE IF value.k = "null" THEN <<"n", "u", "l", "l">>
    ELSE <<"u", "n", "d", "e", "f", "i", "n", "e", "d">>

UpperCase == <<"T", "R", "U", "E", "F", "A", "L", "S">>
LowerCase == <<"t", "r", "u", "e", "f", "a", "l", "s">>

LowerChar(c) ==
    IF \E i \in 1..Len(UpperCase) : UpperCase[i] = c
    THEN LowerCase[CHOOSE i \in 1..Len(UpperCase) : UpperCase[i] = c]
    ELSE c

\* text.toLowerCase()
ToLower(text) == [i \in 1..Len(text) |-> LowerChar(text[i])]

NaN == [k |-> "nan"]

\* Number.parseInt(text, 10): an optional sign, then the longest run of
\* digits; NaN when there is no digit (no text of the model has white space)
ParseInt(text) ==
    LET signed == Len(text) > 0 /\ text[1] \in {"-", "+"}
        from == IF signed THEN 2 ELSE 1
        to == DigitRun(text, from)
    IN  IF to = from THEN NaN
        ELSE LET magnitude == DigitsToNat(SubSeq(text, from, to - 1))
             IN  Num(IF signed /\ text[1] = "-" THEN 0 - magnitude ELSE magnitude)

\* Number.parseFloat(text) on the texts of the model, none of which has a
\* fraction, an exponent or the word Infinity: the same prefix as ParseInt
ParseFloat(text) == ParseInt(text)

castValue(value, type) ==
    IF value.k \in {"null", "undefined"} THEN Undefined
    ELSE IF type = "integer"
    THEN LET parsed == ParseInt(ToStr(value))
         IN  IF parsed = NaN THEN Undefined ELSE parsed
    ELSE IF type = "number"
    THEN LET parsed == ParseFloat(ToStr(value))
         IN  IF parsed = NaN THEN Undefined ELSE parsed
    ELSE IF type = "boolean"
    THEN IF value.k = "bool" THEN value
         ELSE LET lowered == ToLower(ToStr(value))
              IN  IF lowered = sTrue THEN Bool(TRUE)
                  ELSE IF lowered = sFalse THEN Bool(FALSE)
                  ELSE Undefined
    ELSE Str(ToStr(value))

\* a === b where at most b can be an object or an array: a reference is
\* never identical to a primitive
StrictEqual(a, b) == ~IsContainer(a) /\ ~IsContainer(b) /\ a = b

\* a variant of arePrimitiveEqual with the comparison inverted
arePrimitiveEqualInverted(a, b) == ~StrictEqual(a, b)

\* arePrimitiveEqual: no number of the model is NaN, so only === remains
arePrimitiveEqual(a, b) == StrictEqual(a, b)

NoEntry == [k |-> "noentry"]
NoRange == [k |-> "norange"]
NoBound == [k |-> "nobound"]

\* a SchemaFieldDefinition: enum is <<>> when the entry has none
Entry(enum, range) == [k |-> "entry", enum |-> enum, range |-> range]

\* a SchemaRange: min and max are Num(..) or NoBound
Range(min, max) == [k |-> "range", min |-> min, max |-> max]

\* a variant of validateValue that forgets the lower bound of a range
validateValueNoMin(value, schemaEntry) ==
    IF schemaEntry = NoEntry THEN TRUE
    ELSE IF Len(schemaEntry.enum) > 0
    THEN \E i \in 1..Len(schemaEntry.enum) : StrictEqual(schemaEntry.enum[i], value)
    ELSE LET range == schemaEntry.range
         IN  IF range = NoRange \/ value.k # "num" THEN TRUE
             ELSE IF range.max.k = "num" /\ value.n > range.max.n THEN FALSE
             ELSE TRUE

validateValue(value, schemaEntry) ==
    IF schemaEntry = NoEntry THEN TRUE
    ELSE IF Len(schemaEntry.enum) > 0
    THEN \E i \in 1..Len(schemaEntry.enum) : StrictEqual(schemaEntry.enum[i], value)
    ELSE LET range == schemaEntry.range
         IN  IF range = NoRange \/ value.k # "num" THEN TRUE
             ELSE IF range.min.k = "num" /\ value.n < range.min.n THEN FALSE
             ELSE IF range.max.k = "num" /\ value.n > range.max.n THEN FALSE
             ELSE TRUE

NoSchema == [k |-> "noschema"]

\* a ConfigSchema over its flattened fields
Schema(fields) == [k |-> "schema", fields |-> fields]

\* this.session.schema?.getField(pathKey)
getField(schema, pathKey) ==
    IF schema = NoSchema THEN NoEntry
    ELSE IF pathKey \in DOMAIN schema.fields THEN schema.fields[pathKey]
    ELSE NoEntry

-----------------------------------------------------------------------------
(* editorPanel: array index normalisation and copies *)

\* a variant of normalizeArrayIndex that clamps remove and clone to the
\* length of the array, as add does
normalizeArrayIndexToLength(kind, length, index) ==
    IF length < 0 THEN Undefined
    ELSE IF index = Undefined \/ index = NaN
    THEN (IF kind = "add" THEN Num(length) ELSE Num(Max(0, length - 1)))
    ELSE Num(Min(Max(0, index.n), length))

\* normalizeArrayIndex: index is Undefined, NaN or Num(..); the result is a
\* number (every length of the model is non-negative)
normalizeArrayIndex(kind, length, index) ==
    LET maxAdd == length
        maxExisting == Max(0, length - 1)
    IN  IF length < 0 THEN Undefined
        ELSE IF index = Undefined \/ index = NaN
        THEN (IF kind = "add" THEN Num(length) ELSE Num(maxExisting))
        ELSE LET clamped == Max(0, index.n)
             IN  IF kind = "add"
                 THEN Num(IF clamped > maxAdd THEN maxAdd ELSE clamped)
                 ELSE Num(IF clamped > maxExisting THEN maxExisting ELSE clamped)

RECURSIVE JsonClone(_)
\* JSON.parse(JSON.stringify(value)) of a value other than undefined: a hole
\* or an undefined element of an array becomes null, the named properties of
\* an array are left out, an undefined property of an object is left out
JsonClone(value) ==
    IF value.k = "obj"
    THEN Obj([q \in {r \in DOMAIN value.f : value.f[r] # Undefined} |->
                 JsonClone(value.f[q])])
    ELSE IF value.k = "arr"
    THEN Arr([i \in 1..Len(value.e) |->
                 IF value.e[i] = Undefined THEN Null ELSE JsonClone(value.e[i])])
    ELSE value

\* deepClone: JSON.stringify(undefined) is undefined, JSON.parse throws on
\* it, and the catch returns the value itself
deepClone(value) == IF value = Undefined THEN value ELSE JsonClone(value)

\* working.splice(at, 0, item) for 0 <= at <= length
SpliceInsert(working, at, item) ==
    [i \in 1..(Len(working) + 1) |->
        IF i <= at THEN working[i]
        ELSE IF i = at + 1 THEN item
        ELSE working[i - 1]]

\* working.splice(at, 1)
SpliceRemove(working, at) ==
    [i \in 1..(Len(working) - (IF at < Len(working) THEN 1 ELSE 0)) |->
        IF i <= at THEN working[i] ELSE working[i + 1]]

-----------------------------------------------------------------------------
(* editorPanel: the operations of the panel on its session *)

Status(level, message) == [level |-> level, message |-> message]

\* the truthiness test of `this.originalData ? ... : undefined`
Truthy(value) ==
    /\ value.k \notin {"undefined", "null"}
    /\ value # Bool(FALSE)
    /\ value # Num(0)
    /\ value # Str(<<>>)

\* what a call leaves behind: the session, the modified set, the status posted
Outcome(s, m, st) == [session |-> s, modifiedPaths |-> m, status |-> st]

\* a variant of updateValue that writes the tree before it validates
updateValueWriteFirst(pathKey, rawValue, valueType) ==
    LET segments == parsePathKey(pathKey)
        schemaEntry == getField(session.schema, pathKey)
        typedValue == castValue(rawValue, valueType)
        written == setValueAtPath(session.data, segments, typedValue)
        baselineValue == getValueAtPath(originalData, segments)
    IN  IF typedValue = Undefined
        THEN Outcome(session, modifiedPaths, Status("error", "Invalid value."))
        ELSE IF ~written.ok
        THEN Outcome(session, modifiedPaths, Status("error", "Failed to update value."))
        ELSE IF ~validateValue(typedValue, schemaEntry)
        THEN Outcome([session EXCEPT !.data = written.tree], modifiedPaths,
                     Status("error", "Value is outside the allowed range."))
        ELSE Outcome([session EXCEPT !.data = written.tree],
                     IF arePrimitiveEqual(typedValue, baselineValue)
                     THEN modifiedPaths \ {pathKey}
                     ELSE modifiedPaths \cup {pathKey},
                     Status("info", "Value updated (unsaved)."))

\* updateValue(pathKey, rawValue, valueType) with a session loaded
updateValue(pathKey, rawValue, valueType) ==
    LET segments == parsePathKey(pathKey)
        schemaEntry == getField(session.schema, pathKey)
        typedValue == castValue(rawValue, valueType)
        written == IF Len(segments) = 0
                   THEN [ok |-> TRUE, tree |-> typedValue]
                   ELSE setValueAtPath(session.data, segments, typedValue)
        baselineValue == IF Truthy(originalData)
                         THEN (IF Len(segments) = 0 THEN originalData
                               ELSE getValueAtPath(originalData, segments))
                         ELSE Undefined
        reverted == arePrimitiveEqual(typedValue, baselineValue)
    IN  IF typedValue = Undefined
        THEN Outcome(session, modifiedPaths, Status("error", "Invalid value."))
        ELSE IF ~validateValue(typedValue, schemaEntry)
        THEN Outcome(session, modifiedPaths,
                     Status("error", "Value is outside the allowed range."))
        ELSE IF ~written.ok
        THEN Outcome(session, modifiedPaths, Status("error", "Failed to update value."))
        ELSE Outcome([session EXCEPT !.data = written.tree],
                     IF reverted THEN modifiedPaths \ {pathKey}
                     ELSE modifiedPaths \cup {pathKey},
                     Status("info", "Value updated (unsaved)."))

\* an ArrayMutationPayload; valueType is "none" when the payload has none
Mutation(kind, index, value, valueType) ==
    [kind |-> kind, index |-> index, value |-> value, valueType |-> valueType]

\* a variant of mutateArray that splices the array of the tree itself and
\* checks the insertion value and the length afterwards
mutateArrayInPlace(pathKey, mutation) ==
    LET segments == parsePathKey(pathKey)
        target == getValueAtPath(session.data, segments)
        working == target.e
        resolvedIndex == normalizeArrayIndex(mutation.kind, Len(working), mutation.index)
        cast == castValue(mutation.value, mutation.valueType)
        insertedValue == IF cast = Undefined THEN Null ELSE cast
        sourceIdx == Min(Max(0, resolvedIndex.n), Len(working) - 1)
        changed == IF mutation.kind = "add"
                   THEN SpliceInsert(working, resolvedIndex.n, insertedValue)
                   ELSE IF mutation.kind = "remove" \/ Len(working) = 0
                   THEN SpliceRemove(working, resolvedIndex.n)
                   ELSE SpliceInsert(working, sourceIdx + 1, deepClone(working[sourceIdx + 1]))
        written == setValueAtPath(session.data, segments, Arr(changed))
    IN  IF ~IsArray(target)
        THEN Outcome(session, modifiedPaths,
                     Status("error", "Selected node is not an array."))
        ELSE IF mutation.kind = "add" /\ mutation.valueType # "none" /\ cast = Undefined
        THEN Outcome([session EXCEPT !.data = written.tree], modifiedPaths,
                     Status("error", "Failed to cast value for insertion."))
        ELSE IF mutation.kind \in {"remove", "clone"} /\ Len(working) = 0
        THEN Outcome(session, modifiedPaths, Status("error", "Array is empty."))
        ELSE Outcome([session EXCEPT !.data = written.tree],
                     modifiedPaths \cup {pathKey},
                     Status("info", "Array updated (unsaved)."))

\* mutateArray(pathKey, mutation) with a session loaded
mutateArray(pathKey, mutation) ==
    LET segments == parsePathKey(pathKey)
        target == IF Len(segments) = 0 THEN session.data
                  ELSE getValueAtPath(session.data, segments)
        working == target.e
        resolvedIndex == normalizeArrayIndex(mutation.kind, Len(working), mutation.index)
        cast == castValue(mutation.value, mutation.valueType)
        insertedValue == IF mutation.valueType # "none" THEN cast
                         ELSE IF mutation.value = Undefined THEN Null
                         ELSE mutation.value
        sourceIdx == Min(Max(0, resolvedIndex.n), Len(working) - 1)
        changed == IF mutation.kind = "add"
                   THEN SpliceInsert(working, resolvedIndex.n, insertedValue)
                   ELSE IF mutation.kind = "remove"
                   THEN SpliceRemove(working, resolvedIndex.n)
                   ELSE SpliceInsert(working, sourceIdx + 1, deepClone(working[sourceIdx + 1]))
        written == IF Len(segments) = 0
                   THEN [ok |-> TRUE, tree |-> Arr(changed)]
                   ELSE setValueAtPath(session.data, segments, Arr(changed))
    IN  IF ~IsArray(target)
        THEN Outcome(session, modifiedPaths,
                     Status("error", "Selected node is not an array."))
        ELSE IF resolvedIndex = Undefined
        THEN Outcome(session, modifiedPaths,
                     Status("error", "Invalid index for array operation."))
        ELSE IF mutation.kind = "add" /\ mutation.valueType # "none" /\ cast = Undefined
        THEN Outcome(session, modifiedPaths,
                     Status("error", "Failed to cast value for insertion."))
        ELSE IF mutation.kind \in {"remove", "clone"} /\ Len(working) = 0
        THEN Outcome(session, modifiedPaths, Status("error", "Array is empty."))
        ELSE IF ~written.ok
        THEN Outcome(session, modifiedPaths,
                     Status("error", "Failed to apply array change."))
        ELSE Outcome([session EXCEPT !.data = written.tree],
                     modifiedPaths \cup {pathKey},
                     Status("info", "Array updated (unsaved)."))

\* the text `JSON.stringify(data, null, indent) + '\n'`: the document it
\* denotes, the width of its indentation (JSON.stringify uses at most 10
\* spaces) and its final line break
JsonText(data, indent) ==
    [doc |-> JsonClone(data), indent |-> Min(10, indent), newline |-> TRUE]

\* parseJsonc(text)
parseJsonc(text) == text.doc

-----------------------------------------------------------------------------
(* The documents, the schema and the messages of the session model *)

sServerPort == sServer \o <<".">> \o sPort
sArr0 == sArr \o <<"[", "0", "]">>
sXY == sX \o <<".">> \o sY

\* {"x": 5, "y": "a", "server": {"port": 8080}, "mode": "dev", "arr": [5, 6]}
DocA ==
    Obj((sX :> Num(5)) @@ (sY :> Str(sA)) @@ (sServer :> Obj((sPort :> Num(8080))))
        @@ (sMode :> Str(sDev)) @@ (sArr :> Arr(<<Num(5), Num(6)>>)))

\* the same document after an edit made outside the editor
DocB == [DocA EXCEPT !.f[sX] = Num(7)]

\* the flattened schema that loadSchema finds next to the config file; "y"
\* has no entry
SchemaA ==
    Schema((sServerPort :> Entry(<<>>, Range(Num(1024), Num(65535))))
           @@ (sMode :> Entry(<<Str(sDev), Str(sProd)>>, NoRange))
           @@ (sX :> Entry(<<Num(5), Num(7)>>, Range(Num(6), NoBound)))
           @@ (sArr0 :> Entry(<<>>, Range(NoBound, Num(8)))))

loadSchema == SchemaA

IndentSizes == {4}

EditMessage(path, value, valueType) ==
    [path |-> path, value |-> value, valueType |-> valueType]

\* the editValue messages of Spec
AsyncEditMessages ==
    {EditMessage(sX, Str(<<"7">>), "integer"),
     EditMessage(sX, Str(<<"5">>), "integer"),
     EditMessage(sX, Str(sA), "integer"),
     EditMessage(sServerPort, Str(<<"9", "9">>), "integer"),
     EditMessage(sXY, Str(<<"7">>), "integer"),
     EditMessage(<<>>, Str(<<"7">>), "integer")}

\* the editValue messages of SpecEdit
EditMessages ==
    {EditMessage(sServerPort, Str(<<"9", "9">>), "integer"),
     EditMessage(sServerPort, Str(<<"9", "0", "0", "0">>), "integer"),
     EditMessage(sServerPort, Str(<<"8", "0", "8", "0">>), "number"),
     EditMessage(sServerPort, Str(<<"7", "0", "0", "0", "0">>), "integer"),
     EditMessage(sServerPort, Str(<<"T", "r", "u", "e">>), "integer"),
     EditMessage(sMode, Str(sStaging), "enum"),
     EditMessage(sMode, Str(sDev), "string"),
     EditMessage(sMode, Bool(TRUE), "boolean"),
     EditMessage(sX, Str(<<"9">>), "integer"),
     EditMessage(sX, Str(<<"5">>), "string"),
     EditMessage(sX, Str(<<"5">>), "integer"),
     EditMessage(sY, Str(sA), "string"),
     EditMessage(sArr0, Str(<<"9">>), "integer"),
     EditMessage(sArr0, Str(<<"6">>), "integer"),
     EditMessage(sXY, Str(<<"7">>), "integer"),
     EditMessage(<<>>, Str(<<"7">>), "integer")}

\* the editValue messages of SpecValues: those of SpecEdit and values at and
\* next to the bounds, outside the enum and of another type than the entry's
ValueMessages ==
    EditMessages \cup
    {EditMessage(sServerPort, Str(<<"1", "0", "2", "3">>), "integer"),
     EditMessage(sServerPort, Str(<<"1", "0", "2", "4">>), "integer"),
     EditMessage(sServerPort, Str(<<"6", "5", "5", "3", "6">>), "number"),
     EditMessage(sServerPort, Str(<<"-", "1">>), "integer"),
     EditMessage(sMode, Str(<<"P", "r", "o", "d">>), "string"),
     EditMessage(sY, Bool(FALSE), "boolean")}

ArrayMessage(path, mutation) == [path |-> path, mutation |-> mutation]

ArrayIndexes == {Undefined, NaN, Num(0 - 1), Num(0), Num(1), Num(MaxIndex)}

\* the mutateArray messages of SpecEdit
ArrayMessages ==
    {ArrayMessage(sArr, Mutation("add", i, Str(<<"5">>), "integer")) : i \in ArrayIndexes}
    \cup {ArrayMessage(sArr, Mutation(kind, i, Undefined, "none")) :
             kind \in {"remove", "clone"}, i \in ArrayIndexes}
    \cup {ArrayMessage(sArr, Mutation("add", Num(0), Str(sA), "integer")),
          ArrayMessage(sX, Mutation("remove", Num(0), Undefined, "none")),
          ArrayMessage(<<>>, Mutation("remove", Num(0), Undefined, "none"))}

\* the mutateArray messages of Spec
AsyncArrayMessages ==
    {ArrayMessage(sX, Mutation("remove", Num(0), Undefined, "none"))}

\* the texts an external program writes to the config file
ExternalTexts == {JsonText(DocB, 2)}

-----------------------------------------------------------------------------
(* The panel: message handlers, continuations and the file system *)

LoadCall(notify) == [op |-> "load", stage |-> "read", notify |-> notify]

Init ==
    /\ session = NoSession
    /\ originalData = Undefined
    /\ modifiedPaths = {}
    /\ file = JsonText(DocA, 2)
    /\ inflight = SetToBag({LoadCall(TRUE)})
    /\ status = NoStatus
    /\ configWatcher = FALSE
    /\ fsEvents = {}
    /\ indentSize \in IndentSizes
    /\ call = NoCall

\* the suspended calls
Suspended == BagToSet(inflight)

\* a call suspends, a call settles, a call moves on to its next await
Start(c) == inflight (+) SetToBag({c})
Settle(c) == inflight (-) SetToBag({c})
Advance(c, d) == (inflight (-) SetToBag({c})) (+) SetToBag({d})

Apply(outcome) ==
    /\ session' = outcome.session
    /\ modifiedPaths' = outcome.modifiedPaths
    /\ status' = outcome.status

\* the length of the array at pathKey after a mutation that adds an element
GrowsWithin(pathKey, mutation) ==
    LET target == getValueAtPath(session.data, parsePathKey(pathKey))
    IN  (mutation.kind \in {"add", "clone"} /\ IsArray(target))
            => Len(target.e) < MaxArrLen

\* case 'editValue' of onDidReceiveMessage
EditValue(message) ==
    /\ IF Len(message.path) > 0 /\ session # NoSession
       THEN Apply(updateValue(message.path, message.value, message.valueType))
       ELSE UNCHANGED <<session, modifiedPaths, status>>
    /\ UNCHANGED <<originalData, file, inflight, configWatcher, fsEvents, indentSize, call>>

\* a variant of MutateArray that unmarks the path when the array equals the
\* baseline again, as updateValue does for a primitive
MutateArrayUnmarking(message) ==
    /\ session # NoSession => GrowsWithin(message.path, message.mutation)
    /\ IF Len(message.path) > 0 /\ session # NoSession
       THEN LET outcome == mutateArray(message.path, message.mutation)
                segments == parsePathKey(message.path)
                reverted == getValueAtPath(outcome.session.data, segments)
                                = getValueAtPath(originalData, segments)
            IN  Apply([outcome EXCEPT !.modifiedPaths =
                          IF reverted THEN @ \ {message.path} ELSE @])
       ELSE UNCHANGED <<session, modifiedPaths, status>>
    /\ UNCHANGED <<originalData, file, inflight, configWatcher, fsEvents, indentSize, call>>

\* case 'mutateArray' of onDidReceiveMessage
MutateArray(message) ==
    /\ session # NoSession => GrowsWithin(message.path, message.mutation)
    /\ IF Len(message.path) > 0 /\ session # NoSession
       THEN Apply(mutateArray(message.path, message.mutation))
       ELSE UNCHANGED <<session, modifiedPaths, status>>
    /\ UNCHANGED <<originalData, file, inflight, configWatcher, fsEvents, indentSize, call>>

\* refresh(): loadDocument starts and suspends at readFile
refresh ==
    IF session = NoSession THEN UNCHANGED inflight
    ELSE inflight' = Start(LoadCall(TRUE))

\* case 'reload' of onDidReceiveMessage; limit bounds the suspended calls
Reload(limit) ==
    /\ BagCardinality(inflight) < limit
    /\ refresh
    /\ UNCHANGED <<session, originalData, modifiedPaths, file, status, configWatcher,
                   fsEvents, indentSize, call>>

\* case 'save': saveDocument enters persistChanges, which serialises the tree
\* and suspends at openTextDocument
Save(limit) ==
    /\ BagCardinality(inflight) < limit
    /\ IF session = NoSession THEN UNCHANGED inflight
       ELSE inflight' = Start([op |-> "save", stage |-> "open",
                               text |-> JsonText(session.data, Max(0, indentSize))])
    /\ UNCHANGED <<session, originalData, modifiedPaths, file, status, configWatcher,
                   fsEvents, indentSize, call>>

\* loadDocument resumes after readFile: a missing file throws into the catch,
\* otherwise the text is parsed and loadSchema suspends
LoadRead(c) ==
    /\ c.op = "load" /\ c.stage = "read"
    /\ IF file = NoFile
       THEN /\ inflight' = Settle(c)
            /\ status' = Status("error", "Failed to load config.")
       ELSE /\ inflight' = Advance(c, [op |-> "load", stage |-> "schema",
                                       notify |-> c.notify, text |-> file])
            /\ UNCHANGED status
    /\ UNCHANGED <<session, originalData, modifiedPaths, file, configWatcher, fsEvents,
                   indentSize, call>>

\* loadDocument resumes after loadSchema and installs the session
LoadCommit(c) ==
    /\ c.op = "load" /\ c.stage = "schema"
    /\ session' = [data |-> parseJsonc(c.text), schema |-> loadSchema]
    /\ originalData' = parseJsonc(c.text)
    /\ modifiedPaths' = {}
    /\ configWatcher' = TRUE
    /\ status' = IF c.notify THEN Status("info", "Loaded.") ELSE status
    /\ inflight' = Settle(c)
    /\ UNCHANGED <<file, fsEvents, indentSize, call>>

\* persistChanges resumes after openTextDocument
SaveOpened(c, opened) ==
    /\ c.op = "save" /\ c.stage = "open"
    /\ IF opened /\ session # NoSession
       THEN /\ inflight' = Advance(c, [c EXCEPT !.stage = "write"])
            /\ UNCHANGED status
       ELSE /\ inflight' = Settle(c)
            /\ status' = Status("error", "Failed to save config.")
    /\ UNCHANGED <<session, originalData, modifiedPaths, file, configWatcher, fsEvents,
                   indentSize, call>>

\* the file-system notifications a change of the file raises
Notify(event) == IF configWatcher THEN fsEvents \cup {event} ELSE fsEvents

\* a variant of SaveWritten that leaves the baseline as it was
SaveWrittenKeepsBaseline(c, result) ==
    /\ c.op = "save" /\ c.stage = "write"
    /\ inflight' = Settle(c)
    /\ IF result = "saved"
       THEN file' = c.text /\ fsEvents' = Notify("change")
       ELSE UNCHANGED <<file, fsEvents>>
    /\ IF result = "failed" \/ session = NoSession
       THEN status' = Status("error", "Failed to save config.") /\ UNCHANGED modifiedPaths
       ELSE modifiedPaths' = {} /\ status' = Status("info", "Config saved.")
    /\ UNCHANGED <<session, originalData, configWatcher, indentSize, call>>

\* applyEdit and document.save() settle and saveDocument resumes: result is
\* "saved" (the file holds the text), "refused" (both returned false and the
\* file is as it was) or "failed" (one of them threw)
SaveWritten(c, result) ==
    /\ c.op = "save" /\ c.stage = "write"
    /\ inflight' = Settle(c)
    /\ IF result = "saved"
       THEN file' = c.text /\ fsEvents' = Notify("change")
       ELSE UNCHANGED <<file, fsEvents>>
    /\ IF result = "failed" \/ session = NoSession
       THEN /\ status' = Status("error", "Failed to save config.")
            /\ UNCHANGED <<originalData, modifiedPaths>>
       ELSE /\ originalData' = JsonClone(session.data)
            /\ modifiedPaths' = {}
            /\ status' = Status("info", "Config saved.")
    /\ UNCHANGED <<session, configWatcher, indentSize, call>>

\* onDidChange / onDidCreate of the config watcher
WatchChange(limit) ==
    /\ configWatcher /\ "change" \in fsEvents
    /\ BagCardinality(inflight) < limit
    /\ fsEvents' = fsEvents \ {"change"}
    /\ refresh
    /\ UNCHANGED <<session, originalData, modifiedPaths, file, status, configWatcher,
                   indentSize, call>>

\* onDidDelete of the config watcher
WatchDelete ==
    /\ configWatcher /\ "delete" \in fsEvents
    /\ fsEvents' = fsEvents \ {"delete"}
    /\ session' = NoSession
    /\ status' = Status("error", "Config file was deleted.")
    /\ UNCHANGED <<originalData, modifiedPaths, file, inflight, configWatcher,
                   indentSize, call>>

\* another program writes the config file
ExternalEdit ==
    /\ \E text \in ExternalTexts : file # text /\ file' = text
    /\ fsEvents' = Notify("change")
    /\ UNCHANGED <<session, originalData, modifiedPaths, inflight, status, configWatcher,
                   indentSize, call>>

\* another program deletes the config file
ExternalDelete ==
    /\ file # NoFile
    /\ file' = NoFile
    /\ fsEvents' = Notify("delete")
    /\ UNCHANGED <<session, originalData, modifiedPaths, inflight, status, configWatcher,
                   indentSize, call>>

\* the continuations of the suspended calls
Resume ==
    \/ \E c \in Suspended : LoadRead(c)
    \/ \E c \in Suspended : LoadCommit(c)
    \/ \E c \in Suspended, opened \in BOOLEAN : SaveOpened(c, opened)
    \/ \E c \in Suspended, result \in {"saved", "refused", "failed"} :
           SaveWritten(c, result)

\* Spec: the panel with overlapping calls, a changing file and a few edits
Next ==
    \/ \E message \in AsyncEditMessages : EditValue(message)
    \/ \E message \in AsyncArrayMessages : MutateArray(message)
    \/ Reload(MaxInflight)
    \/ Save(MaxInflight)
    \/ Resume
    \/ WatchChange(MaxInflight)
    \/ WatchDelete
    \/ ExternalEdit
    \/ ExternalDelete

Spec == Init /\ [][Next]_vars

\* the webview posts a message only while no call of the panel is suspended
Settled == inflight = EmptyBag

\* the continuations when every request to the host succeeds
ResumeDone ==
    \/ \E c \in Suspended : LoadRead(c)
    \/ \E c \in Suspended : LoadCommit(c)
    \/ \E c \in Suspended : SaveOpened(c, TRUE)
    \/ \E c \in Suspended : SaveWritten(c, "saved")

\* SpecEdit: all the edits, each message handled after the calls before it
\* have settled, every request to the host succeeding and no other program
\* writing the file
NextEdit ==
    \/ Settled /\ \E message \in EditMessages : EditValue(message)
    \/ Settled /\ \E message \in ArrayMessages : MutateArray(message)
    \/ Reload(1)
    \/ Save(1)
    \/ ResumeDone

SpecEdit == Init /\ [][NextEdit]_vars

\* SpecValues: SpecEdit with editValue messages only, and more of them
NextValues ==
    \/ Settled /\ \E message \in ValueMessages : EditValue(message)
    \/ Reload(1)
    \/ Save(1)
    \/ ResumeDone

SpecValues == Init /\ [][NextValues]_vars

\* SpecArrays: SpecEdit with the mutateArray messages only
NextArrays ==
    \/ Settled /\ \E message \in ArrayMessages : MutateArray(message)
    \/ Reload(1)
    \/ Save(1)
    \/ ResumeDone

SpecArrays == Init /\ [][NextArrays]_vars

-----------------------------------------------------------------------------
(* Claims about updateValue *)

Accepted(st) == st = Status("info", "Value updated (unsaved).")

\* the two values are primitives of the same type and value
SamePrimitive(a, b) ==
    /\ a.k \in {"num", "str", "bool", "null"}
    /\ a = b

\* C1: an updateValue that succeeds adds its path key to the modified set
\* when the value it wrote differs from the baseline value at that path, and
\* removes the path key when the two are equal.
C1_UpdateMarks ==
    [][\A message \in AsyncEditMessages :
          (Accepted(status') /\ session # NoSession /\ Len(message.path) > 0
              /\ EditValue(message))
          => LET segments == parsePathKey(message.path)
                 writtenValue == getValueAtPath(session'.data, segments)
                 baselineValue == getValueAtPath(originalData, segments)
             IN  modifiedPaths' =
                     IF SamePrimitive(writtenValue, baselineValue)
                     THEN modifiedPaths \ {message.path}
                     ELSE modifiedPaths \cup {message.path}]_vars

\* "x" was updated from the baseline value 5 to 7 and is in the modified set
C1_Witness ==
    /\ session # NoSession
    /\ Accepted(status)
    /\ getValueAtPath(originalData, <<Key(sX)>>) = Num(5)
    /\ getValueAtPath(session.data, <<Key(sX)>>) = Num(7)
    /\ sX \in modifiedPaths

\* C3: an updateValue that is rejected, whether by coercion, by validation or
\* by the walk to the path, leaves the tree, the baseline and the modified
\* set as they were.
C3_RejectedUpdateChangesNothing ==
    [][\A message \in AsyncEditMessages :
          (status'.level = "error" /\ session # NoSession /\ Len(message.path) > 0
              /\ EditValue(message))
          => UNCHANGED <<session, originalData, modifiedPaths>>]_vars

\* an update was refused by the walk to its path while "x" was modified
C3_Witness ==
    /\ session # NoSession
    /\ status = Status("error", "Failed to update value.")
    /\ sX \in modifiedPaths
    /\ getValueAtPath(session.data, <<Key(sX)>>) = Num(7)

-----------------------------------------------------------------------------
(* Claims about saveDocument and the handling of overlapping events *)

SaveInFlight == \E c \in Suspended : c.op = "save"

\* C4: when saveDocument completes successfully the file holds the JSON text
\* of the current tree at the configured indent width with one trailing
\* newline, the baseline equals the current tree and the modified set is empty.
C4_SaveWritesCurrentTree ==
    [][\A c \in Suspended :
          (status' = Status("info", "Config saved.") /\ SaveWritten(c, "saved"))
          => /\ file' = JsonText(session'.data, Max(0, indentSize))
             /\ file'.newline
             /\ originalData' = session'.data
             /\ modifiedPaths' = {}]_vars

\* C5: no editValue takes effect between the moment saveDocument serialises
\* the tree and the moment it resets the baseline and clears the modified set.
C5_NoEditDuringSave ==
    [][\A message \in AsyncEditMessages :
          (SaveInFlight /\ Accepted(status') /\ EditValue(message))
          => UNCHANGED session]_vars

\* C6: at most one loadDocument or saveDocument of the panel is in flight.
C6_OneCallInFlight == BagCardinality(inflight) <= 1

-----------------------------------------------------------------------------
(* Claims about the modified set, validation and the array index *)

RECURSIVE LeafPaths(_)
\* the paths from a value to the primitives in it
LeafPaths(value) ==
    IF value.k = "obj"
    THEN UNION {{<<Key(q)>> \o r : r \in LeafPaths(value.f[q])} : q \in DOMAIN value.f}
    ELSE IF value.k = "arr"
    THEN UNION {{<<Idx(i - 1)>> \o r : r \in LeafPaths(value.e[i])} :
                   i \in 1..Len(value.e)}
    ELSE {<<>>}

\* the current value at the path is not the baseline value at the path
Differs(segments) ==
    getValueAtPath(session.data, segments) # getValueAtPath(originalData, segments)

ClaimedValid(value, entry) ==
    IF entry # NoEntry /\ Len(entry.enum) > 0
    THEN \E i \in 1..Len(entry.enum) : entry.enum[i] = value
    ELSE IF entry # NoEntry /\ entry.range # NoRange /\ value.k = "num"
    THEN /\ entry.range.min # NoBound => entry.range.min.n <= value.n
         /\ entry.range.max # NoBound => value.n <= entry.range.max.n
    ELSE TRUE

\* C9: a coerced value written to a path that resolves is accepted iff it is
\* a member of the non-empty enum of the path's entry, or else, being a number
\* under an entry with a range, lies within the bounds present, or else
\* always; a rejected update leaves the tree unchanged, an accepted one that
\* differs from the baseline marks the path.
C9_ValidationDecides ==
    [][\A message \in ValueMessages :
          (session # NoSession /\ Len(message.path) > 0 /\ EditValue(message))
          => LET segments == parsePathKey(message.path)
                 typedValue == castValue(message.value, message.valueType)
                 entry == getField(session.schema, message.path)
                 resolves == setValueAtPath(session.data, segments, typedValue).ok
             IN  (typedValue # Undefined /\ resolves) =>
                     IF ClaimedValid(typedValue, entry)
                     THEN /\ Accepted(status')
                          /\ getValueAtPath(session'.data, segments) = typedValue
                          /\ typedValue # getValueAtPath(originalData, segments)
                                 => message.path \in modifiedPaths'
                     ELSE /\ status'.level = "error"
                          /\ UNCHANGED <<session, modifiedPaths>>]_vars

\* "server.port" was updated to 9000 within its range and is marked
C9_Witness ==
    /\ session # NoSession
    /\ Accepted(status)
    /\ getValueAtPath(session.data, <<Key(sServer), Key(sPort)>>) = Num(9000)
    /\ getValueAtPath(originalData, <<Key(sServer), Key(sPort)>>) = Num(8080)
    /\ sServerPort \in modifiedPaths

Clamp(n, low, high) == IF n < low THEN low ELSE IF n > high THEN high ELSE n

\* the index an operation acts on for a requested index, by the claim
ClaimedIndex(kind, n, index) ==
    IF index \in {Undefined, NaN} THEN (IF kind = "add" THEN n ELSE n - 1)
    ELSE IF kind = "add" THEN Clamp(index.n, 0, n)
    ELSE Clamp(index.n, 0, Max(0, n - 1))

\* the array with item before the element at index i, without the element at i
InsertAt(elements, i, item) ==
    SubSeq(elements, 1, i) \o <<item>> \o SubSeq(elements, i + 1, Len(elements))

RemoveAt(elements, i) ==
    SubSeq(elements, 1, i) \o SubSeq(elements, i + 2, Len(elements))

ArrayUpdated(st) == st = Status("info", "Array updated (unsaved).")

\* C10: an accepted add inserts at the requested index clamped to [0, n], an
\* accepted remove or clone acts on the requested index clamped to
\* [0, max(0, n-1)]; a missing or NaN index is n for add and n-1 for remove
\* and clone.
C10_IndexNormalised ==
    [][\A message \in ArrayMessages :
          (ArrayUpdated(status') /\ session # NoSession /\ Len(message.path) > 0
              /\ MutateArray(message))
          => LET segments == parsePathKey(message.path)
                 before == getValueAtPath(session.data, segments).e
                 after == getValueAtPath(session'.data, segments).e
                 kind == message.mutation.kind
                 i == ClaimedIndex(kind, Len(before), message.mutation.index)
             IN  after =
                     IF kind = "add"
                     THEN InsertAt(before, i,
                                   castValue(message.mutation.value,
                                             message.mutation.valueType))
                     ELSE IF kind = "remove" THEN RemoveAt(before, i)
                     ELSE InsertAt(before, i + 1, before[i + 1])]_vars

\* an add past the end of [5, 6] has appended its element
C10_Witness ==
    /\ session # NoSession
    /\ ArrayUpdated(status)
    /\ getValueAtPath(originalData, <<Key(sArr)>>) = Arr(<<Num(5), Num(6)>>)
    /\ getValueAtPath(session.data, <<Key(sArr)>>) = Arr(<<Num(5), Num(6), Num(5)>>)

-----------------------------------------------------------------------------
(* Claims about array operations that fail and that succeed *)

\* C11: a mutateArray that fails, because the path holds no array, because
\* remove or clone meets an empty array, or because the value of an add
\* cannot be coerced to its declared type, leaves the tree, the baseline and
\* the modified set as they were.
C11_FailedArrayOpChangesNothing ==
    [][\A message \in ArrayMessages :
          (status'.level = "error" /\ session # NoSession /\ Len(message.path) > 0
              /\ MutateArray(message))
          => UNCHANGED <<session, originalData, modifiedPaths>>]_vars

\* an add whose value cannot be coerced was refused on an array that an
\* earlier operation had changed
C11_Witness ==
    /\ session # NoSession
    /\ status = Status("error", "Failed to cast value for insertion.")
    /\ sArr \in modifiedPaths
    /\ getValueAtPath(session.data, <<Key(sArr)>>) = Arr(<<Num(6)>>)

\* C12: after every successful add, remove or clone the path of the array is
\* in the modified set, whatever the array then holds, and no path leaves
\* the modified set.
C12_ArrayOpAlwaysMarks ==
    [][\A message \in ArrayMessages :
          (ArrayUpdated(status') /\ session # NoSession /\ Len(message.path) > 0
              /\ MutateArray(message))
          => /\ message.path \in modifiedPaths'
             /\ modifiedPaths \subseteq modifiedPaths']_vars

\* an add and a remove of the same item have brought "arr" back to its
\* baseline value and "arr" is marked
C12_Witness ==
    /\ session # NoSession
    /\ ArrayUpdated(status)
    /\ getValueAtPath(session.data, <<Key(sArr)>>)
           = getValueAtPath(originalData, <<Key(sArr)>>)
    /\ Len(getValueAtPath(session.data, <<Key(sArr)>>).e) = 2
    /\ sArr \in modifiedPaths

-----------------------------------------------------------------------------
(* SpecClone: clone on an array whose elements are containers *)

sM == <<"m">>
sK == <<"k">>

\* {"m": [[5], {"k": 5}]}
DocNested == Obj((sM :> Arr(<<Arr(<<Num(5)>>), Obj((sK :> Num(5)))>>)))

\* the editValue messages of SpecClone: one to a leaf of the second element,
\* one to an index past the end of the first element
CloneEditMessages ==
    {EditMessage(sM \o <<"[", "1", "]", ".">> \o sK, Str(<<"6">>), "integer"),
     EditMessage(sM \o <<"[", "0", "]", "[", "2", "]">>, Str(<<"5">>), "integer")}

\* the mutateArray messages of SpecClone
CloneArrayMessages ==
    {ArrayMessage(sM, Mutation("clone", i, Undefined, "none")) :
        i \in {Undefined, Num(0), Num(1), Num(MaxIndex)}}
    \cup {ArrayMessage(sM, Mutation("remove", Num(0), Undefined, "none"))}

InitClone ==
    /\ session = NoSession
    /\ originalData = Undefined
    /\ modifiedPaths = {}
    /\ file = JsonText(DocNested, 2)
    /\ inflight = SetToBag({LoadCall(TRUE)})
    /\ status = NoStatus
    /\ configWatcher = FALSE
    /\ fsEvents = {}
    /\ indentSize \in IndentSizes
    /\ call = NoCall

NextClone ==
    \/ Settled /\ \E message \in CloneEditMessages : EditValue(message)
    \/ Settled /\ \E message \in CloneArrayMessages : MutateArray(message)
    \/ Reload(1)
    \/ Save(1)
    \/ ResumeDone

SpecClone == InitClone /\ [][NextClone]_vars

\* C13: an accepted clone on an array of length n yields an array of length
\* n+1 in which, for the normalised index i, position i+1 holds a value
\* structurally equal to the element at i, the elements up to i are unchanged
\* and the elements formerly from i+1 on are shifted right by one.
C13_CloneDuplicates ==
    [][\A message \in CloneArrayMessages :
          (ArrayUpdated(status') /\ session # NoSession
              /\ message.mutation.kind = "clone" /\ MutateArray(message))
          => LET segments == parsePathKey(message.path)
                 before == getValueAtPath(session.data, segments).e
                 after == getValueAtPath(session'.data, segments).e
                 n == Len(before)
                 i == ClaimedIndex("clone", n, message.mutation.index)
             IN  /\ Len(after) = n + 1
                 /\ after[i + 2] = before[i + 1]
                 /\ SubSeq(after, 1, i + 1) = SubSeq(before, 1, i + 1)
                 /\ SubSeq(after, i + 3, n + 1) = SubSeq(before, i + 2, n)]_vars

-----------------------------------------------------------------------------
(* SpecReload: reloads of a file that another program writes and cuts short *)

\* the config file cut off after its first member, {"x": 7 : no closing
\* brace; doc is the value the fault-tolerant parse of jsonc-parser returns
\* for it, which reports its errors in a list the caller did not pass
TruncatedText ==
    [doc |-> Obj((sX :> Num(7))), indent |-> 2, newline |-> FALSE, closed |-> FALSE]

\* the text is a complete JSON document
ValidJson(text) == text # NoFile /\ "closed" \notin DOMAIN text

\* another program is cut off while writing the config file
ExternalTruncate ==
    /\ file # TruncatedText
    /\ file' = TruncatedText
    /\ fsEvents' = Notify("change")
    /\ UNCHANGED <<session, originalData, modifiedPaths, inflight, status, configWatcher,
                   indentSize, call>>

NextReload ==
    \/ Settled /\ \E message \in AsyncEditMessages : EditValue(message)
    \/ Reload(1)
    \/ \E c \in Suspended : LoadRead(c)
    \/ \E c \in Suspended : LoadCommit(c)
    \/ WatchChange(1)
    \/ WatchDelete
    \/ ExternalEdit
    \/ ExternalTruncate
    \/ ExternalDelete

SpecReload == Init /\ [][NextReload]_vars

\* C14: a load that fails, because the file cannot be read or because its
\* text is not valid JSON, leaves the session (tree and schema), the baseline
\* and the modified set as they were; a failed first load leaves no session.
C14_FailedLoadKeepsSession ==
    [][\A c \in Suspended :
          (\/ c.op = "load" /\ c.stage = "read" /\ file = NoFile /\ LoadRead(c)
           \/ c.op = "load" /\ c.stage = "schema" /\ ~ValidJson(c.text) /\ LoadCommit(c))
              => UNCHANGED <<session, originalData, modifiedPaths>>]_vars

-----------------------------------------------------------------------------
(* Claims about the deleted config file *)

\* the delete notification has been handled and no load has succeeded since
Invalidated == session = NoSession /\ configWatcher

\* C15: once the delete notification on the config file has been handled, no
\* step of the panel changes the value tree, the baseline, the modified set
\* or the file until a load of the document succeeds; only another program
\* changes the file.
C15_DeletedSessionIsInert ==
    [][(Invalidated /\ ~(\E c \in Suspended : LoadCommit(c)))
          => /\ UNCHANGED <<session, originalData, modifiedPaths>>
             /\ file' = file \/ ExternalEdit \/ ExternalDelete]_vars

-----------------------------------------------------------------------------
(* SpecPanels: JsonEditorPanel.open and dispose on the static panel registry *)

\* uri.toString() of the documents that are opened
Uris == {"config.json", "other.json"}

\* no panel: what Map.get returns for a key that is not set
NoPanel == 0

\* call.panels is the static Map, call.all the panels constructed so far (a
\* panel is named by its position), call.opening the calls of open suspended
\* at resolveTargetUri, call.last what the last call of open did
InitPanels ==
    /\ SessionUnused
    /\ call = [op |-> "panels",
               panels |-> [u \in Uris |-> NoPanel],
               all |-> <<>>,
               opening |-> [u \in Uris |-> 0],
               last |-> [kind |-> "none", id |-> NoPanel]]

\* the panels for document u that have not been disposed
LivePanels(u) == {id \in 1..Len(call.all) : call.all[id].uri = u /\ ~call.all[id].disposed}

\* the command calls open(context, uri), which suspends at resolveTargetUri
OpenStart(u) ==
    /\ call.op = "panels"
    /\ call.opening["config.json"] + call.opening["other.json"] < MaxInflight
    /\ call' = [call EXCEPT !.opening[u] = @ + 1]
    /\ UNCHANGED sessionVars

\* a variant of OpenResolved that constructs a panel without looking the
\* document up in the registry
OpenResolvedAlwaysNew(u, resolved) ==
    /\ call.op = "panels"
    /\ call.opening[u] > 0
    /\ IF ~resolved
       THEN call' = [call EXCEPT !.opening[u] = @ - 1]
       ELSE /\ Len(call.all) < MaxPanels
            /\ call' = [call EXCEPT !.opening[u] = @ - 1,
                                    !.all = Append(@, [uri |-> u, disposed |-> FALSE]),
                                    !.panels[u] = Len(call.all) + 1,
                                    !.last = [kind |-> "created", id |-> Len(call.all) + 1]]
    /\ UNCHANGED sessionVars

\* open resumes after resolveTargetUri: without a uri it returns; a registered
\* panel is revealed and reloaded; otherwise a panel is constructed and set
OpenResolved(u, resolved) ==
    /\ call.op = "panels"
    /\ call.opening[u] > 0
    /\ IF ~resolved
       THEN call' = [call EXCEPT !.opening[u] = @ - 1]
       ELSE LET existing == call.panels[u]
            IN  IF existing # NoPanel
                THEN call' = [call EXCEPT !.opening[u] = @ - 1,
                                          !.last = [kind |-> "revealed", id |-> existing]]
                ELSE /\ Len(call.all) < MaxPanels
                     /\ call' = [call EXCEPT !.opening[u] = @ - 1,
                                             !.all = Append(@, [uri |-> u, disposed |-> FALSE]),
                                             !.panels[u] = Len(call.all) + 1,
                                             !.last = [kind |-> "created", id |-> Len(call.all) + 1]]
    /\ UNCHANGED sessionVars

\* dispose(), called by the host or by the webview panel's onDidDispose
Dispose(id) ==
    /\ call.op = "panels"
    /\ id \in 1..Len(call.all)
    /\ IF call.all[id].disposed
       THEN UNCHANGED call
       ELSE call' = [call EXCEPT !.all[id].disposed = TRUE,
                                 !.panels[call.all[id].uri] = NoPanel]
    /\ UNCHANGED sessionVars

NextPanels ==
    \/ \E u \in Uris : OpenStart(u)
    \/ \E u \in Uris, resolved \in BOOLEAN : OpenResolved(u, resolved)
    \/ \E id \in 1..MaxPanels : Dispose(id)

SpecPanels == InitPanels /\ [][NextPanels]_vars

\* C16: for any interleaving of open requests and disposals each document has
\* at most one panel that is not disposed, that panel is the one the registry
\* holds for the document, and an open request for a document that has a
\* panel reveals that panel.
C16_OnePanelPerDocument ==
    call.op = "panels" =>
        /\ \A u \in Uris :
               LivePanels(u) = IF call.panels[u] = NoPanel THEN {} ELSE {call.panels[u]}
        /\ call.last.kind = "revealed" /\ ~call.all[call.last.id].disposed
               => call.panels[call.all[call.last.id].uri] = call.last.id

\* a document was opened, its panel disposed, the document opened again and
\* then opened once more, which revealed the second panel
C16_Witness ==
    /\ call.op = "panels"
    /\ Len(call.all) = 2
    /\ call.all[1] = [uri |-> "config.json", disposed |-> TRUE]
    /\ call.all[2] = [uri |-> "config.json", disposed |-> FALSE]
    /\ call.last = [kind |-> "revealed", id |-> 2]

-----------------------------------------------------------------------------
(* SpecSchema: the schema files of a document, their watcher and the edits *)

\* the candidates of loadSchema in its order: the file of the stored mapping,
\* then the file with the schema suffix next to the config file
SchemaCandidates == <<"custom.json", "config_Schema.json">>

\* what a schema file can be: absent, not JSON, or JSON with flattened fields
SchemaContents ==
    {[k |-> "missing"], [k |-> "invalid"],
     [k |-> "json", fields |-> SchemaA.fields],
     [k |-> "json", fields |-> (sX :> Entry(<<>>, NoRange))]}

\* readSchemaFile: undefined when stat or JSON.parse fails
readSchemaFile(files, schemaUri) ==
    IF files[schemaUri].k = "json"
    THEN [k |-> "schema", fields |-> files[schemaUri].fields, uri |-> schemaUri]
    ELSE NoSchema

\* loadSchema over the schema files: the first candidate that reads as a schema
loadSchemaOf(files) ==
    LET found == {i \in DOMAIN SchemaCandidates :
                     readSchemaFile(files, SchemaCandidates[i]) # NoSchema}
    IN  IF found = {} THEN NoSchema
        ELSE readSchemaFile(files, SchemaCandidates[CHOOSE i \in found :
                                                       \A k \in found : i <= k])

\* call.files are the schema files, call.watched the file of schemaWatcher,
\* call.events its pending notifications, call.reload the watcher's reload
\* suspended at loadSchema: "fresh" while this.session is the object it took
\* the reference of before the await, "stale" once a load replaced it
InitSchema ==
    /\ session = NoSession
    /\ originalData = Undefined
    /\ modifiedPaths = {}
    /\ file = JsonText(DocA, 2)
    /\ inflight = EmptyBag
    /\ status = NoStatus
    /\ configWatcher = FALSE
    /\ fsEvents = {}
    /\ indentSize \in IndentSizes
    /\ call = [op |-> "schema",
               files |-> [u \in {"custom.json", "config_Schema.json"} |->
                             [k |-> "json", fields |-> SchemaA.fields]],
               watched |-> "none", events |-> {}, reload |-> "none"]

\* loadDocument, from open or a reload, when its requests succeed
SchemaLoad ==
    /\ call.op = "schema"
    /\ LET schema == loadSchemaOf(call.files)
       IN  /\ session' = [data |-> parseJsonc(file), schema |-> schema]
           /\ call' = [call EXCEPT
                          !.watched = IF schema = NoSchema THEN "none" ELSE schema.uri,
                          !.events = {},
                          !.reload = IF @ = "none" THEN "none" ELSE "stale"]
    /\ originalData' = parseJsonc(file)
    /\ modifiedPaths' = {}
    /\ configWatcher' = TRUE
    /\ status' = Status("info", "Loaded.")
    /\ UNCHANGED <<file, inflight, fsEvents, indentSize>>

\* another program writes, creates or deletes a schema file
SchemaWrite(schemaUri, content) ==
    /\ call.op = "schema"
    /\ call.files[schemaUri] # content
    /\ call' = [call EXCEPT
                   !.files[schemaUri] = content,
                   !.events = IF call.watched # schemaUri THEN @
                              ELSE IF content.k = "missing" THEN @ \cup {"delete"}
                              ELSE @ \cup {"change"}]
    /\ UNCHANGED sessionVars

\* onDidChange / onDidCreate of the schema watcher: reload starts
SchemaWatchChange ==
    /\ call.op = "schema"
    /\ "change" \in call.events
    /\ call.reload = "none"
    /\ call' = [call EXCEPT !.events = @ \ {"change"},
                            !.reload = IF session = NoSession THEN "none" ELSE "fresh"]
    /\ UNCHANGED sessionVars

\* a variant of SchemaReloadCommit that reloads the whole document
SchemaReloadCommitRefreshing ==
    /\ call.op = "schema"
    /\ call.reload # "none"
    /\ call' = [call EXCEPT !.reload = "none"]
    /\ IF call.reload = "fresh"
       THEN /\ session' = [data |-> parseJsonc(file), schema |-> loadSchemaOf(call.files)]
            /\ originalData' = parseJsonc(file)
            /\ modifiedPaths' = {}
       ELSE UNCHANGED <<session, originalData, modifiedPaths>>
    /\ UNCHANGED <<file, inflight, status, configWatcher, fsEvents, indentSize>>

\* reload resumes after loadSchema and assigns the schema of the session
\* object it held before the await
SchemaReloadCommit ==
    /\ call.op = "schema"
    /\ call.reload # "none"
    /\ call' = [call EXCEPT !.reload = "none"]
    /\ IF call.reload = "fresh"
       THEN session' = [session EXCEPT !.schema = loadSchemaOf(call.files)]
       ELSE UNCHANGED session
    /\ UNCHANGED <<originalData, modifiedPaths, file, inflight, status, configWatcher,
                   fsEvents, indentSize>>

\* onDidDelete of the schema watcher
SchemaWatchDelete ==
    /\ call.op = "schema"
    /\ "delete" \in call.events
    /\ call' = [call EXCEPT !.events = @ \ {"delete"}]
    /\ IF session = NoSession THEN UNCHANGED session
       ELSE session' = [session EXCEPT !.schema = NoSchema]
    /\ UNCHANGED <<originalData, modifiedPaths, file, inflight, status, configWatcher,
                   fsEvents, indentSize>>

\* case 'editSchema': updateSchemaEntry reads the attached schema's file,
\* writes it back with the entry updated and reads it again
UpdateSchemaEntry(content) ==
    /\ call.op = "schema"
    /\ content.k = "json"
    /\ IF session = NoSession \/ session.schema = NoSchema
       THEN /\ status' = Status("error", "No schema attached.")
            /\ UNCHANGED <<session, call>>
       ELSE LET schemaUri == session.schema.uri
                written == [call.files EXCEPT ![schemaUri] = content]
            IN  IF call.files[schemaUri].k # "json"
                THEN /\ status' = Status("error", "Failed to update schema.")
                     /\ UNCHANGED <<session, call>>
                ELSE /\ call' = [call EXCEPT
                                    !.files = written,
                                    !.events = IF call.watched = schemaUri
                                               THEN @ \cup {"change"} ELSE @]
                     /\ session' = [session EXCEPT
                                       !.schema = readSchemaFile(written, schemaUri)]
                     /\ UNCHANGED status
    /\ UNCHANGED <<originalData, modifiedPaths, file, inflight, configWatcher, fsEvents,
                   indentSize>>

NextSchema ==
    \/ \E message \in AsyncEditMessages : EditValue(message)
    \/ SchemaLoad
    \/ \E schemaUri \in DOMAIN call.files, content \in SchemaContents :
           SchemaWrite(schemaUri, content)
    \/ SchemaWatchChange
    \/ SchemaReloadCommit
    \/ SchemaWatchDelete
    \/ \E content \in SchemaContents : UpdateSchemaEntry(content)

SpecSchema == InitSchema /\ [][NextSchema]_vars

\* C17: the handlers of the schema watcher change only the schema of the
\* session: a change or create notification reloads the schema, a delete
\* notification clears it, and the value tree, the baseline and the modified
\* set stay as they were.
C17_SchemaEventsKeepTree ==
    [][(session # NoSession /\ (SchemaWatchChange \/ SchemaReloadCommit \/ SchemaWatchDelete))
          => /\ session' # NoSession
             /\ session'.data = session.data
             /\ UNCHANGED <<originalData, modifiedPaths>>
             /\ SchemaWatchDelete => session'.schema = NoSchema]_vars

\* x was edited, then the watched schema file was deleted and the delete
\* notification cleared the schema while the edit stayed marked
C17_Witness ==
    /\ call.op = "schema"
    /\ session # NoSession
    /\ session.schema = NoSchema
    /\ call.watched = "custom.json"
    /\ call.files["custom.json"].k = "missing"
    /\ call.events = {}
    /\ modifiedPaths = {sX}
    /\ getValueAtPath(session.data, <<Key(sX)>>) = Num(7)

\* C18: whenever the session has a schema attached, the schema watcher is on
\* the file that schema was read from.
C18_WatcherOnAttachedSchema ==
    (call.op = "schema" /\ session # NoSession /\ session.schema # NoSchema)
        => call.watched = session.schema.uri

-----------------------------------------------------------------------------
(* Claims about a save that does not reach the file *)

\* C19: a save whose write does not succeed (the document cannot be opened,
\* the edit or the save is refused, or one of them throws) reports failure,
\* leaves the file as it was and resets neither the baseline nor the modified
\* set.
C19_UnwrittenSaveReportsFailure ==
    [][\A c \in Suspended :
          (c.op = "save" /\ file # c.text
              /\ (\/ SaveOpened(c, FALSE)
                  \/ SaveWritten(c, "refused")
                  \/ SaveWritten(c, "failed")))
          => /\ status'.level = "error"
             /\ UNCHANGED <<file, originalData, modifiedPaths>>]_vars

-----------------------------------------------------------------------------
(* SpecVisible: the webview's isVisibleNode applied to bounded trees *)

\* {"a":{"b":{"c":1}}}, the same with a.d, and a tree with an array, a null
\* leaf and an empty container
VisibleRoots ==
    {Obj((sA :> Obj((sB :> Obj((sC :> Num(1))))))),
     Obj((sA :> Obj((sB :> Obj((sC :> Num(1)))) @@ (<<"d">> :> Num(2))))),
     Obj((sA :> Arr(<<Obj((sB :> Null)), Arr(<<>>)>>)))}

RECURSIVE NodePaths(_)
\* the paths from a value to every node in it, the value itself included
NodePaths(value) ==
    IF value.k = "obj"
    THEN {<<>>} \cup UNION {{<<Key(q)>> \o r : r \in NodePaths(value.f[q])} :
                               q \in DOMAIN value.f}
    ELSE IF value.k = "arr"
    THEN {<<>>} \cup UNION {{<<Idx(i - 1)>> \o r : r \in NodePaths(value.e[i])} :
                               i \in 1..Len(value.e)}
    ELSE {<<>>}

\* call.hidden are the path keys whose schema entry has visible === false,
\* call.mode is schemaEditMode, call.path the node that is asked about
InitVisible ==
    /\ SessionUnused
    /\ \E root \in VisibleRoots :
       \E hidden \in SUBSET {buildPathKey(q) : q \in NodePaths(root) \ {<<>>}},
          mode \in BOOLEAN, segments \in NodePaths(root) \ {<<>>} :
           call = [op |-> "node", root |-> root, hidden |-> hidden, mode |-> mode,
                   path |-> segments]

RECURSIVE isVisibleNodeInternal(_, _, _, _)
RECURSIVE hasVisibleDescendant(_, _, _, _)

\* a variant of isVisibleNodeInternal that looks at the node's own flag only
isVisibleNodeInternalFlagOnly(hidden, mode, nodeValue, segments) ==
    mode \/ buildPathKey(segments) \notin hidden

hasVisibleDescendant(hidden, mode, value, segments) ==
    IF value.k = "arr"
    THEN \E i \in 1..Len(value.e) :
             isVisibleNodeInternal(hidden, mode, value.e[i], Append(segments, Idx(i - 1)))
    ELSE IF value.k = "obj"
    THEN \E key \in DOMAIN value.f :
             isVisibleNodeInternal(hidden, mode, value.f[key], Append(segments, Key(key)))
    ELSE FALSE

isVisibleNodeInternal(hidden, mode, nodeValue, segments) ==
    IF mode THEN TRUE
    ELSE IF buildPathKey(segments) \in hidden THEN FALSE
    ELSE IF ~IsContainer(nodeValue) THEN TRUE
    ELSE hasVisibleDescendant(hidden, mode, nodeValue, segments)

\* buildNodes asks isVisibleNode about a node of the tree
VisibleCheck ==
    /\ call.op = "node"
    /\ call' = [call EXCEPT !.op = "checked"] @@
               [visible |-> isVisibleNodeInternal(call.hidden, call.mode,
                                getValueAtPath(call.root, call.path), call.path)]
    /\ UNCHANGED sessionVars

SpecVisible == InitVisible /\ [][VisibleCheck]_vars

\* what isVisibleNode answers for the node at the path in the tree asked about
VisibleAt(segments) ==
    isVisibleNodeInternal(call.hidden, call.mode,
                          getValueAtPath(call.root, segments), segments)

Flagged(segments) == buildPathKey(segments) \in call.hidden

\* C20 as stated: a node flagged visible false is hidden; a container without
\* the flag is visible iff at least one of the nodes below it is visible; a
\* leaf without the flag is visible.
C20_PruningByDescendants ==
    call.op = "checked" =>
        LET node == getValueAtPath(call.root, call.path)
        IN  IF Flagged(call.path) THEN ~call.visible
            ELSE IF IsContainer(node)
            THEN call.visible <=>
                     \E r \in NodePaths(node) \ {<<>>} : VisibleAt(call.path \o r)
            ELSE call.visible

\* C20 as the code has it: in schema edit mode every node is visible;
\* otherwise a node is visible iff it is, or has below it, a leaf such that no
\* node from the node down to that leaf is flagged visible false.
C20_PruningByUnflaggedLeaf ==
    call.op = "checked" =>
        LET node == getValueAtPath(call.root, call.path)
        IN  call.visible <=>
                \/ call.mode
                \/ \E r \in LeafPaths(node) :
                       \A n \in 0..Len(r) : ~Flagged(call.path \o SubSeq(r, 1, n))

\* a.b.c is flagged in {"a":{"b":{"c":1},"d":2}} and a, which has the visible
\* child a.d, was found visible
C20_Witness ==
    /\ call.op = "checked"
    /\ ~call.mode
    /\ call.root = Obj((sA :> Obj((sB :> Obj((sC :> Num(1)))) @@ (<<"d">> :> Num(2)))))
    /\ call.hidden = {buildPathKey(<<Key(sA), Key(sB), Key(sC)>>)}
    /\ call.path = <<Key(sA)>>
    /\ call.visible

-----------------------------------------------------------------------------
(* SpecKeys: editValue messages whose path names no leaf of the tree *)

\* x is a leaf; "z" is no key of the root, "server" is an object, arr[3] is
\* past the end of arr
KeyEditMessages ==
    {EditMessage(sX, Str(<<"7">>), "integer"),
     EditMessage(<<"z">>, Str(<<"7">>), "integer"),
     EditMessage(sServer, Str(<<"7">>), "integer"),
     EditMessage(sArr \o <<"[", "3", "]">>, Str(<<"7">>), "integer")}

NextKeys ==
    \/ Settled /\ \E message \in KeyEditMessages : EditValue(message)
    \/ Reload(1)
    \/ Save(1)
    \/ ResumeDone

SpecKeys == Init /\ [][NextKeys]_vars

\* C21: an accepted updateValue changes only the value of a leaf that exists:
\* the path named a leaf of the tree before, and the tree has the same nodes
\* afterwards (no key added, no array extended, no container replaced).
C21_UpdateOnlyRewritesLeaf ==
    [][\A message \in KeyEditMessages :
          (Accepted(status') /\ session # NoSession /\ Len(message.path) > 0
              /\ EditValue(message))
          => /\ parsePathKey(message.path) \in LeafPaths(session.data)
             /\ NodePaths(session'.data) = NodePaths(session.data)]_vars

-----------------------------------------------------------------------------
(* Claims about requests that get no answer *)

\* the status is one that no edit, array or save request posts, so that a
\* request that posts a message changes it
QuietStatus ==
    status \in {Status("info", "Loaded."), Status("error", "Config file was deleted.")}

\* C22: no request is silently dropped: whenever an editValue, mutateArray
\* or save request with a path arrives, also while no session is loaded, its
\* handler posts a status message or, for a save, starts the save that
\* posts one.
C22_EveryRequestAnswered ==
    QuietStatus =>
        /\ \A message \in AsyncEditMessages :
               Len(message.path) > 0 => ENABLED (EditValue(message) /\ status' # status)
        /\ \A message \in AsyncArrayMessages :
               Len(message.path) > 0 => ENABLED (MutateArray(message) /\ status' # status)
        /\ BagCardinality(inflight) < MaxInflight
               => ENABLED (Save(MaxInflight) /\ inflight' # inflight)

-----------------------------------------------------------------------------
(* Claims about segments of the other container's kind *)

\* the segment is a string and the node an array, or the segment an integer
\* and the node an object
KindMismatch(node, segment) ==
    \/ node.k = "arr" /\ segment.t = "key"
    \/ node.k = "obj" /\ segment.t = "idx"

\* C23: when the last segment of the path is of the other kind than the
\* container it is applied to, getValueAtPath finds nothing and setValueAtPath
\* returns false and leaves the tree as it was.
C23_KindMismatchFails ==
    call.op \in {"set", "got"} =>
        LET parent == getValueAtPath(call.root, SubSeq(call.path, 1, Len(call.path) - 1))
            last == call.path[Len(call.path)]
        IN  (IsContainer(parent) /\ KindMismatch(parent, last))
                => /\ getValueAtPath(call.root, call.path) = Undefined
                   /\ ~call.ok
                   /\ call.after = call.root

-----------------------------------------------------------------------------
(* SpecNormalize: normalizeFieldObject applied to raw schema field objects *)

tString == <<"s", "t", "r", "i", "n", "g">>
tText == <<"t", "e", "x", "t">>
tEnum == <<"e", "n", "u", "m">>
tSelect == <<"s", "e", "l", "e", "c", "t">>
tInteger == <<"i", "n", "t", "e", "g", "e", "r">>
tInt == <<"i", "n", "t">>
tLong == <<"l", "o", "n", "g">>
tShort == <<"s", "h", "o", "r", "t">>
tFloat == <<"f", "l", "o", "a", "t">>
tDouble == <<"d", "o", "u", "b", "l", "e">>
tNumber == <<"n", "u", "m", "b", "e", "r">>
tDecimal == <<"d", "e", "c", "i", "m", "a", "l">>
tBoolean == <<"b", "o", "o", "l", "e", "a", "n">>
tBool == <<"b", "o", "o", "l">>

\* text.trim(), for texts whose only white space is the blank
Trim(text) ==
    LET inked == {i \in 1..Len(text) : text[i] # " "}
    IN  IF inked = {} THEN <<>>
        ELSE SubSeq(text, CHOOSE i \in inked : \A k \in inked : i <= k,
                          CHOOSE i \in inked : \A k \in inked : i >= k)

normalizeType(rawType) ==
    IF rawType.k # "str" THEN Undefined
    ELSE IF Len(Trim(rawType.s)) = 0 THEN Undefined
    ELSE LET value == ToLower(Trim(rawType.s))
         IN  IF value \in {tString, tText} THEN Str(tString)
             ELSE IF value \in {tEnum, tSelect} THEN Str(tEnum)
             ELSE IF value \in {tInteger, tInt, tLong, tShort} THEN Str(tInteger)
             ELSE IF value \in {tFloat, tDouble, tNumber, tDecimal} THEN Str(tNumber)
             ELSE IF value \in {tBoolean, tBool} THEN Str(tBoolean)
             ELSE Undefined

\* a SchemaRange with its optional members
RangeOf(min, max, options) == [k |-> "range", min |-> min, max |-> max, options |-> options]

\* the member of a raw object when it satisfies the test on its kind
Member(raw, key, kind) ==
    IF key \in DOMAIN raw.f /\ raw.f[key].k = kind THEN raw.f[key] ELSE Undefined

\* normalizeRange for a raw range that is an array, an object or a blank
\* string (the raw ranges of the model hold no other string)
normalizeRange(raw, type) ==
    IF raw.k = "arr"
    THEN IF Len(raw.e) > 0 THEN RangeOf(Undefined, Undefined, raw) ELSE Undefined
    ELSE IF raw.k = "obj"
    THEN LET range == RangeOf(Member(raw, <<"m", "i", "n">>, "num"),
                              Member(raw, <<"m", "a", "x">>, "num"),
                              Member(raw, <<"o", "p", "t", "i", "o", "n", "s">>, "arr"))
         IN  IF range = RangeOf(Undefined, Undefined, Undefined) THEN Undefined ELSE range
    ELSE Undefined

\* normalizeFieldObject for a raw object with the members visible, type, enum
\* and range (Undefined when absent) and no label, title, description, unit
\* or visibility
normalizeFieldObject(value) ==
    LET visible == IF value.visible.k = "bool" THEN value.visible ELSE Undefined
        originalType == IF value.type.k = "str" THEN ToLower(Trim(value.type.s)) ELSE <<>>
        normalizedType == normalizeType(value.type)
        rawType == IF normalizedType # Undefined /\ Len(originalType) > 0
                   THEN Str(originalType) ELSE Undefined
        enum == IF value.enum.k = "arr" THEN value.enum ELSE Undefined
        range == IF value.range # Undefined
                 THEN normalizeRange(value.range, normalizedType) ELSE Undefined
        mirrored == IF range # Undefined /\ enum = Undefined
                       /\ normalizedType = Str(tEnum) /\ range.options # Undefined
                    THEN range.options ELSE enum
        defined == visible # Undefined \/ normalizedType # Undefined
                       \/ enum # Undefined \/ range # Undefined
    IN  IF defined
        THEN [k |-> "field", visible |-> visible, type |-> normalizedType,
              rawType |-> rawType, enum |-> mirrored, range |-> range]
        ELSE Undefined

\* the raw field objects of the model
RawFields ==
    [visible : {Undefined, Bool(FALSE)},
     type : {Undefined, Num(1), Str(<<" ">>), Str(<<" ", "i", "n", "t", " ">>),
             Str(<<"T", "e", "x", "t">>), Str(<<"S", "e", "l", "e", "c", "t">>),
             Str(tEnum), Str(<<"F", "l", "o", "a", "t">>), Str(tBool),
             Str(<<"d", "A", "T", "E">>)},
     enum : {Undefined, Arr(<<Str(sA)>>)},
     range : {Undefined, Arr(<<>>), Arr(<<Str(sA), Str(sB)>>),
              Obj((<<"m", "i", "n">> :> Num(1)) @@ (<<"m", "a", "x">> :> Str(sA))),
              Obj((<<"o", "p", "t", "i", "o", "n", "s">> :> Arr(<<Num(1), Num(2)>>)))}]

InitNormalize ==
    /\ SessionUnused
    /\ \E raw \in RawFields : call = [op |-> "raw", raw |-> raw]

Normalize ==
    /\ call.op = "raw"
    /\ call' = [op |-> "field", raw |-> call.raw, field |-> normalizeFieldObject(call.raw)]
    /\ UNCHANGED sessionVars

SpecNormalize == InitNormalize /\ [][Normalize]_vars

\* the normalized type the claim gives for a trimmed, lower-cased type string
ClaimedType(lowered) ==
    IF lowered \in {tString, tText} THEN Str(tString)
    ELSE IF lowered \in {tEnum, tSelect} THEN Str(tEnum)
    ELSE IF lowered \in {tInteger, tInt, tLong, tShort} THEN Str(tInteger)
    ELSE IF lowered \in {tFloat, tDouble, tNumber, tDecimal} THEN Str(tNumber)
    ELSE IF lowered \in {tBoolean, tBool} THEN Str(tBoolean)
    ELSE Undefined

\* C24: a type string is trimmed, lower-cased and mapped to its normalized
\* type; for any other non-empty string no type is set and the lower-cased
\* string is still kept as rawType in the field definition.
C24_TypeNormalised ==
    (call.op = "field" /\ call.raw.type.k = "str" /\ Len(Trim(call.raw.type.s)) > 0)
        => LET lowered == ToLower(Trim(call.raw.type.s))
           IN  /\ call.field # Undefined
               /\ call.field.type = ClaimedType(lowered)
               /\ call.field.rawType = Str(lowered)

\* C25: whenever the range of a field normalizes to an option list and the
\* field has no explicit enum, the options are the field's enum, whatever
\* the declared type.
C25_OptionsMirroredIntoEnum ==
    (call.op = "field" /\ call.field # Undefined /\ call.raw.enum = Undefined
        /\ call.field.range # Undefined /\ call.field.range.options # Undefined)
        => call.field.enum = call.field.range.options

-----------------------------------------------------------------------------
(* Claims about the steps that change the baseline *)

\* C26: the baseline changes only when a load completes and when a save has
\* written the file; updateValue and the array operations never change it.
C26_BaselineChangesOnLoadAndSave ==
    [][originalData' # originalData
          => \/ \E c \in Suspended : LoadCommit(c)
             \/ \E c \in Suspended : SaveWritten(c, "saved")]_vars

-----------------------------------------------------------------------------
(* SpecLoads: overlapping loads of a file that another program writes *)

\* reload requests, watch notifications and the continuations of
\* loadDocument; the file is written only while the watcher is installed
NextLoads ==
    \/ Reload(MaxInflight)
    \/ WatchChange(MaxInflight)
    \/ \E c \in Suspended : LoadRead(c)
    \/ \E c \in Suspended : LoadCommit(c)
    \/ configWatcher /\ ExternalEdit
    \/ configWatcher /\ ExternalTruncate

SpecLoads == Init /\ [][NextLoads]_vars

\* C27: when every load has settled and no notification is pending, the
\* session holds the tree and the baseline of the text the file has, which
\* is the text that the most recently started load read.
C27_LatestLoadWins ==
    (inflight = EmptyBag /\ fsEvents = {} /\ session # NoSession)
        => /\ session.data = parseJsonc(file)
           /\ originalData = parseJsonc(file)

-----------------------------------------------------------------------------
(* SpecDispose: a panel that is disposed while its calls are suspended *)

\* dispose() of the panel of the session: the flag is set and the config
\* watcher disposed; the suspended calls are left to resume
PanelDispose ==
    /\ call = NoCall
    /\ call' = [op |-> "disposed"]
    /\ configWatcher' = FALSE
    /\ fsEvents' = {}
    /\ UNCHANGED <<session, originalData, modifiedPaths, file, inflight, status, indentSize>>

\* loadDocument resumes after loadSchema on a disposed panel: the session is
\* assigned, then this.panel.title is set on the disposed webview panel,
\* which the host either rejects by throwing (the catch posts the failure) or
\* lets pass, and then watchConfig and watchSchema create their watchers
LoadCommitDisposed(c, throws) ==
    /\ call.op = "disposed"
    /\ c.op = "load" /\ c.stage = "schema"
    /\ session' = [data |-> parseJsonc(c.text), schema |-> loadSchema]
    /\ originalData' = parseJsonc(c.text)
    /\ modifiedPaths' = {}
    /\ IF throws
       THEN /\ status' = Status("error", "Failed to load config.")
            /\ UNCHANGED configWatcher
       ELSE /\ status' = IF c.notify THEN Status("info", "Loaded.") ELSE status
            /\ configWatcher' = TRUE
    /\ inflight' = Settle(c)
    /\ UNCHANGED <<file, fsEvents, indentSize, call>>

\* the webview posts reload only until the panel is disposed; the file, the
\* watcher and the continuations of loadDocument go on
NextDispose ==
    \/ call = NoCall /\ Reload(MaxInflight)
    \/ WatchChange(MaxInflight)
    \/ \E c \in Suspended : LoadRead(c)
    \/ call = NoCall /\ \E c \in Suspended : LoadCommit(c)
    \/ \E c \in Suspended, throws \in BOOLEAN : LoadCommitDisposed(c, throws)
    \/ ExternalEdit
    \/ ExternalTruncate
    \/ PanelDispose

SpecDispose == Init /\ [][NextDispose]_vars

-----------------------------------------------------------------------------
(* Claims about selecting the members of an enum *)

\* the message selects a member of the enum of the entry at its path: its
\* value is the string form of the member and its type is a declared type
\* enum or string, or the type inferred from the current value
SelectsEnumMember(message) ==
    LET entry == getField(session.schema, message.path)
        current == getValueAtPath(session.data, parsePathKey(message.path))
    IN  /\ entry # NoEntry
        /\ \E i \in 1..Len(entry.enum) : message.value = Str(ToStr(entry.enum[i]))
        /\ message.valueType \in {"enum", "string", inferSchemaType(current)}

\* C29: every member of an entry's non-empty enum can be selected: an
\* updateValue with the string form of the member and the entry's type is
\* accepted, numeric members of an entry of type enum or string included.
C29_EnumMembersSelectable ==
    [][\A message \in ValueMessages :
          (session # NoSession /\ Len(message.path) > 0 /\ SelectsEnumMember(message)
              /\ EditValue(message))
          => Accepted(status')]_vars

-----------------------------------------------------------------------------
(* SpecSchemaEdit: updateSchemaEntry on a schema document, then normalizeSchema *)

kVisible == <<"v", "i", "s", "i", "b", "l", "e">>
kVisibility == <<"v", "i", "s", "i", "b", "i", "l", "i", "t", "y">>
kLabel == <<"l", "a", "b", "e", "l">>
kType == <<"t", "y", "p", "e">>
kFields == <<"f", "i", "e", "l", "d", "s">>
kServer == <<"s", "e", "r", "v", "e", "r">>
kPort == <<"p", "o", "r", "t">>

MetadataKeys ==
    {<<"v", "i", "s", "i", "b", "l", "e">>,
     <<"v", "i", "s", "i", "b", "i", "l", "i", "t", "y">>,
     <<"l", "a", "b", "e", "l">>,
     <<"t", "i", "t", "l", "e">>,
     <<"d", "e", "s", "c", "r", "i", "p", "t", "i", "o", "n">>,
     <<"m", "e", "a", "n", "i", "n", "g">>,
     <<"h", "e", "l", "p">>,
     <<"h", "e", "l", "p", "T", "e", "x", "t">>,
     <<"t", "y", "p", "e">>,
     <<"e", "n", "u", "m">>,
     <<"r", "a", "n", "g", "e">>,
     <<"u", "n", "i", "t">>}

\* joinSegments of schema.ts
joinSegments(segments) ==
    LET bracketed(w) == Len(w) > 2 /\ w[1] = "[" /\ w[Len(w)] = "]"
                            /\ AllDigits(SubSeq(w, 2, Len(w) - 1))
        text(i) == LET w == segments[i]
                   IN  IF bracketed(w) THEN w
                       ELSE IF Len(w) > 0 /\ AllDigits(w) THEN <<"[">> \o w \o <<"]">>
                       ELSE IF i = 1 THEN w
                       ELSE <<".">> \o w
        join[i \in 0..Len(segments)] == IF i = 0 THEN <<>> ELSE join[i - 1] \o text(i)
    IN  join[Len(segments)]

\* normalizeFieldObject for an object of the schema document whose metadata
\* members are among visible, visibility, label and type
normalizeFieldObjectOf(value) ==
    LET member(key) == IF key \in DOMAIN value.f THEN value.f[key] ELSE Undefined
        visibility == Member(value, kVisibility, "str")
        label == Member(value, kLabel, "str")
        hasLabel == label # Undefined /\ Len(Trim(label.s)) > 0
        type == normalizeType(member(kType))
        visible == IF visibility # Undefined /\ ToLower(Trim(visibility.s)) = kVisible
                   THEN Bool(TRUE)
                   ELSE IF visibility # Undefined
                           /\ ToLower(Trim(visibility.s)) \in {<<"i", "n", "v", "i", "s", "i", "b", "l", "e">>, <<"h", "i", "d", "d", "e", "n">>, <<"f", "a", "l", "s", "e">>}
                   THEN Bool(FALSE)
                   ELSE IF member(kVisible).k = "bool" THEN member(kVisible)
                   ELSE Undefined
    IN  IF member(kVisible).k # "bool" /\ visibility = Undefined /\ ~hasLabel
           /\ type = Undefined
        THEN Undefined
        ELSE [k |-> "field", visible |-> visible,
              label |-> IF hasLabel THEN Str(Trim(label.s)) ELSE Undefined,
              type |-> type]

\* stripMetadataKeys: the members that are plain objects under a key that is
\* no metadata key; undefined when there is none
stripMetadataKeys(value) ==
    LET kept == {key \in DOMAIN value.f : key \notin MetadataKeys /\ value.f[key].k = "obj"}
    IN  IF kept = {} THEN Undefined ELSE Obj([key \in kept |-> value.f[key]])

RECURSIVE flattenSchema(_, _, _)
\* flattenSchema: the entries it puts into target, each with its path key
flattenSchema(source, segments, rawSegments) ==
    UNION {UNION {LET pathSegments == Append(segments, key)
                      rawPath == Append(rawSegments, key)
                      fieldDefinition == normalizeFieldObjectOf(value)
                  IN  IF value.k # "obj" THEN {}
                      ELSE IF fieldDefinition # Undefined
                      THEN {[key |-> joinSegments(pathSegments),
                             field |-> fieldDefinition @@ [schemaPath |-> rawPath]]}
                           \cup UNION {flattenSchema(nested, pathSegments, rawPath) :
                                       nested \in {stripMetadataKeys(value)} \ {Undefined}}
                      ELSE flattenSchema(value, pathSegments, rawPath) :
                  value \in {source.f[key]}} :
           key \in DOMAIN source.f}

\* normalizeSchema: the flattened mapping of a schema document; the members
\* outside "fields" are flattened last and win
normalizeSchema(raw) ==
    LET inFields == IF kFields \in DOMAIN raw.f /\ raw.f[kFields].k = "obj"
                    THEN flattenSchema(raw.f[kFields], <<>>, <<kFields>>) ELSE {}
        remainder == Obj([key \in DOMAIN raw.f \ {kFields} |-> raw.f[key]])
        outside == flattenSchema(remainder, <<>>, <<>>)
        keysOf(entries) == {e.key : e \in entries}
    IN  [pathKey \in keysOf(inFields) \cup keysOf(outside) |->
            IF pathKey \in keysOf(outside)
            THEN (CHOOSE e \in outside : e.key = pathKey).field
            ELSE (CHOOSE e \in inFields : e.key = pathKey).field]

\* deriveSchemaPath
deriveSchemaPath(pathKey, document) ==
    LET segments == parsePathKey(pathKey)
        baseSegments == [i \in 1..Len(segments) |-> PropKey(segments[i])]
        hasFieldsContainer == kFields \in DOMAIN document.f /\ IsContainer(document.f[kFields])
    IN  IF hasFieldsContainer THEN <<kFields>> \o baseSegments ELSE baseSegments

\* applySchemaUpdates for updates that have the member visible only
applySchemaUpdates(target, visible) ==
    LET cleared == [key \in DOMAIN target.f \ {kVisible, kVisibility} |-> target.f[key]]
    IN  IF visible \in {kVisible, <<"h", "i", "d", "d", "e", "n">>}
        THEN Obj((kVisibility :> Str(visible)) @@ cleared)
        ELSE Obj(cleared)

RECURSIVE resolveSchemaTarget(_, _, _)
\* resolveSchemaTarget on a document of objects, and the document after
\* applySchemaUpdates has changed the target it returns in place: a member
\* on the way that is missing or no object is replaced by {}
resolveSchemaTarget(current, schemaPath, visible) ==
    IF Len(schemaPath) = 0 THEN applySchemaUpdates(current, visible)
    ELSE LET segment == Head(schemaPath)
             child == IF segment \in DOMAIN current.f /\ current.f[segment].k = "obj"
                      THEN current.f[segment] ELSE Obj(<<>>)
         IN  Obj((segment :> resolveSchemaTarget(child, Tail(schemaPath), visible))
                 @@ current.f)

\* {}, a document whose "server" is a field definition, one with a "fields"
\* container and an entry for server.port, and one whose "server" has a type
SchemaDocuments ==
    {Obj(<<>>),
     Obj((kServer :> Obj((kLabel :> Str(<<"S">>))))),
     Obj((kFields :> Obj((kServer :> Obj((kPort :> Obj((kVisible :> Bool(TRUE))))))))),
     Obj((kServer :> Obj((kType :> Str(tString)) @@ (kPort :> Obj((kLabel :> Str(<<"P">>)))))))}

\* the path keys of the config whose entry is edited
SchemaEditPaths ==
    {kServer, sServerPort, kServer \o <<".">> \o kType, kType, kLabel, sArr0}

InitSchemaEdit ==
    /\ SessionUnused
    /\ \E document \in SchemaDocuments, pathKey \in SchemaEditPaths,
          visible \in {kVisible, <<"h", "i", "d", "d", "e", "n">>, <<"i", "n", "h", "e", "r", "i", "t">>} :
           call = [op |-> "document", document |-> document, pathKey |-> pathKey,
                   visible |-> visible]

\* updateSchemaEntry: the path of the existing entry or the derived one, the
\* document written, and the mapping readSchemaFile normalizes from it
SchemaEdit ==
    /\ call.op = "document"
    /\ \E existing \in {normalizeSchema(call.document)} :
       \E schemaPath \in {IF call.pathKey \in DOMAIN existing
                          THEN existing[call.pathKey].schemaPath
                          ELSE deriveSchemaPath(call.pathKey, call.document)} :
       \E written \in {resolveSchemaTarget(call.document, schemaPath, call.visible)} :
           call' = [op |-> "edited", document |-> call.document, pathKey |-> call.pathKey,
                    visible |-> call.visible, written |-> written,
                    fields |-> normalizeSchema(written)]
    /\ UNCHANGED sessionVars

SpecSchemaEdit == InitSchemaEdit /\ [][SchemaEdit]_vars

\* C30: after updateSchemaEntry has written the document with visible set to
\* hidden or visible and the document is normalized again, the mapping has
\* under the same path key an entry with that visibility, for every path key.
C30_SchemaEditRoundTrip ==
    (call.op = "edited" /\ call.visible # <<"i", "n", "h", "e", "r", "i", "t">>)
        => /\ call.pathKey \in DOMAIN call.fields
           /\ call.fields[call.pathKey].visible = Bool(call.visible = kVisible)

=============================================================================
